---- MODULE Spec2Model ----
(***************************************************************************)
(* Facility discovery of app/services/facility_discovery.py: the lookup    *)
(* of a facility near a coordinate, the on-demand scan of the map-data     *)
(* provider, the scan cache (osm_query_cache) and the duplicate filter.    *)
(*                                                                         *)
(* Numbers.  The source computes with floats; the model computes with      *)
(* integers:                                                               *)
(*   - a latitude or longitude is a whole number of 1e-5 degrees;          *)
(*   - a distance is a whole number of 1e-4 miles;                         *)
(*   - a cosine is a whole number of 1e-4;                                 *)
(*   - a time is a whole number of days.                                   *)
(* Every intermediate product stays below 2^31.                            *)
(***************************************************************************)
EXTENDS Integers, Sequences, FiniteSets, TLC

\* ------------------------------------------------------------------------
\* app/utils/location.py
\* ------------------------------------------------------------------------

\* Integer square root (floor), by bisection.
RECURSIVE SqrtIter(_, _, _)
SqrtIter(n, lo, hi) ==
    IF lo >= hi THEN lo
    ELSE LET mid == (lo + hi + 1) \div 2
         IN  IF mid * mid <= n THEN SqrtIter(n, mid, hi)
                               ELSE SqrtIter(n, lo, mid - 1)

ISqrt(n) == SqrtIter(n, 0, 46340)

Abs(x) == IF x < 0 THEN 0 - x ELSE x

\* math.radians(latitude), in 1e-4 radians, of a latitude in 1e-5 degrees.
RadE4(lat) == ((Abs(lat) \div 100) * 17453) \div 100000

\* math.cos of an angle given in 1e-4 radians (0 .. pi/2), in 1e-4:
\* the series 1 - x^2/2! + x^4/4! - ... up to x^10/10!.
CosSeriesE4(x) ==
    LET x2 == (x * x) \div 10000
        t1 == (10000 * x2) \div (2 * 10000)
        t2 == (t1 * x2) \div (12 * 10000)
        t3 == (t2 * x2) \div (30 * 10000)
        t4 == (t3 * x2) \div (56 * 10000)
        t5 == (t4 * x2) \div (90 * 10000)
    IN  10000 - t1 + t2 - t3 + t4 - t5

CosE4(lat) == CosSeriesE4(RadE4(lat))

\* R * radians(1e-5 degree) = 3959 * pi / 180 * 1e-5 miles = 6.9098e-4 miles:
\* the length of one coordinate unit along a meridian, in 1e-9 miles.
MilesPerUnitE9 == 690976

\* w * cc / 10000 for a cosine product cc (0 .. 10000) and a squared
\* separation w, dividing early enough to stay below 2^31.
MulCos(w, cc) ==
    IF w < 200000 THEN (w * cc) \div 10000
    ELSE IF w < 20000000 THEN ((w \div 100) * cc) \div 100
    ELSE (w \div 10000) * cc

\* sqrt(a) in 1/16 coordinate units.
Sqrt16(a) == IF a < 8000000 THEN ISqrt(a * 256) ELSE ISqrt(a) * 16

\* calculate_distance: the haversine distance in 1e-4 miles.  For the
\* separations of the model (below 0.3 degree) asin(sqrt(a)) equals
\* sqrt(a) and sin(d/2) equals d/2 to more than the 1e-4 mile kept, so
\*   distance = R * sqrt(dlat^2 + cos(lat1) * cos(lat2) * dlon^2).
calculate_distance(lat1, lon1, lat2, lon2) ==
    LET dlat == Abs(lat2 - lat1)
        dlon == Abs(lon2 - lon1)
        cc   == (CosE4(lat1) * CosE4(lat2)) \div 10000
        a    == dlat * dlat + MulCos(dlon * dlon, cc)
        s16  == Sqrt16(a)
    IN  ((s16 \div 16) * (MilesPerUnitE9 \div 100)) \div 1000
          + (((s16 % 16) * (MilesPerUnitE9 \div 100)) \div 16) \div 1000

\* ------------------------------------------------------------------------
\* app/services/facility_discovery.py: constants and encode_geohash
\* ------------------------------------------------------------------------

GEOHASH_PRECISION == 6

\* QUERY_RADIUS_MILES = 5.0, in 1e-4 miles
QUERY_RADIUS_MILES == 50000

CACHE_REFRESH_DAYS == 30

Min(a, b) == IF a < b THEN a ELSE b

\* s[:n] of Python
Prefix(s, n) == SubSeq(s, 1, Min(n, Len(s)))

\* The geohash alphabet; a geohash is a sequence of its characters.
Base32 ==
    << "0", "1", "2", "3", "4", "5", "6", "7", "8", "9", "b", "c", "d", "e",
       "f", "g", "h", "j", "k", "m", "n", "p", "q", "r", "s", "t", "u", "v",
       "w", "x", "y", "z" >>

\* The first n binary digits of x / range, for 0 <= x < range: the bits the
\* geohash bisection of the interval yields.
RECURSIVE Bits(_, _, _)
Bits(x, range, n) ==
    IF n = 0 THEN << >>
    ELSE IF 2 * x >= range THEN <<1>> \o Bits(2 * x - range, range, n - 1)
                           ELSE <<0>> \o Bits(2 * x, range, n - 1)

\* geohash.encode(latitude, longitude, precision): 5 bits a character,
\* longitude and latitude bits alternating, longitude first.
GeohashLib(lat, lon, precision) ==
    LET nbits   == 5 * precision
        lonBits == Bits(lon + 18000000, 36000000, (nbits + 1) \div 2)
        latBits == Bits(lat + 9000000, 18000000, nbits \div 2)
        bit(i)  == IF i % 2 = 1 THEN lonBits[(i + 1) \div 2] ELSE latBits[i \div 2]
        char(k) == Base32[1 + 16 * bit(5 * k - 4) + 8 * bit(5 * k - 3)
                            + 4 * bit(5 * k - 2) + 2 * bit(5 * k - 1) + bit(5 * k)]
    IN  [k \in 1..precision |-> char(k)]

\* f"{n:0{width}d}" for n >= 0 that fits the width
RECURSIVE ZeroPad(_, _)
ZeroPad(n, width) ==
    IF width = 0 THEN << >>
    ELSE ZeroPad(n \div 10, width - 1) \o << Base32[1 + (n % 10)] >>

\* GeohashFallback keeping the last characters, not the first
GeohashFallbackTail(lat, lon, precision) ==
    LET lat_cell == (lat + 9000000) \div 1000
        lng_cell == (lon + 18000000) \div 1000
        key      == ZeroPad(lat_cell, 5) \o ZeroPad(lng_cell, 6)
    IN  SubSeq(key, Len(key) - precision + 1, Len(key))

\* The ImportError branch: a grid hash of 0.01 degree cells.
GeohashFallback(lat, lon, precision) ==
    LET lat_cell == (lat + 9000000) \div 1000
        lng_cell == (lon + 18000000) \div 1000
    IN  Prefix(ZeroPad(lat_cell, 5) \o ZeroPad(lng_cell, 6), precision)

\* encode_geohash; lib: whether `import geohash` succeeds in this deployment.
encode_geohash(lib, lat, lon, precision) ==
    IF lib THEN GeohashLib(lat, lon, precision)
           ELSE GeohashFallback(lat, lon, precision)

\* ------------------------------------------------------------------------
\* Strings: a name is a sequence of one-character strings.
\* ------------------------------------------------------------------------

UpperCase == << "A", "B", "C", "D", "E", "F", "G", "H", "I", "J", "K", "L", "M",
                "N", "O", "P", "Q", "R", "S", "T", "U", "V", "W", "X", "Y", "Z" >>

LowerCase == << "a", "b", "c", "d", "e", "f", "g", "h", "i", "j", "k", "l", "m",
                "n", "o", "p", "q", "r", "s", "t", "u", "v", "w", "x", "y", "z" >>

\* str.lower()
Lower(name) ==
    [i \in 1..Len(name) |->
        IF \E k \in 1..26 : UpperCase[k] = name[i]
        THEN LowerCase[CHOOSE k \in 1..26 : UpperCase[k] = name[i]]
        ELSE name[i]]

\* a in b, for strings
IsSubstring(a, b) ==
    \E i \in 0..(Len(b) - Len(a)) : SubSeq(b, i + 1, i + Len(a)) = a

\* ------------------------------------------------------------------------
\* parse_osm_element
\* ------------------------------------------------------------------------
\* An element of the provider's payload is a record
\*   [type, id, lat, lon, hasCenter, clat, clon,
\*    amenity, hgv, highway, building, industrial, name, operator, brand]
\* A missing number is 0 and a missing tag is "" (a name: << >>): the code
\* tests each of them by truth value, which None, 0 and "" share.  The type
\* "missing" stands for an element without a "type" key.

\* The classification with the rest area rule ahead of the fuel rules.
RestAreaFirst(e) ==
    IF e.highway = "rest_area" THEN "rest_area"
    ELSE IF e.amenity = "fuel" THEN "truck_stop"
    ELSE IF e.amenity = "parking" /\ e.hgv = "yes" THEN "parking"
    ELSE IF e.highway = "services" THEN "service_plaza"
    ELSE IF e.building \in {"warehouse", "industrial"} THEN "warehouse"
    ELSE IF e.industrial = "distribution" THEN "warehouse"
    ELSE IF e.building \in {"retail", "commercial"} THEN "warehouse"
    ELSE "truck_stop"

FacilityType(e) ==
    IF e.amenity = "fuel" /\ e.hgv = "yes" THEN "truck_stop"
    ELSE IF e.amenity = "fuel" THEN "truck_stop"
    ELSE IF e.highway = "rest_area" THEN "rest_area"
    ELSE IF e.amenity = "parking" /\ e.hgv = "yes" THEN "parking"
    ELSE IF e.highway = "services" THEN "service_plaza"
    ELSE IF e.building = "warehouse" THEN "warehouse"
    ELSE IF e.building = "industrial" THEN "warehouse"
    ELSE IF e.industrial = "distribution" THEN "warehouse"
    ELSE IF e.building \in {"retail", "commercial"} THEN "warehouse"
    ELSE "truck_stop"

\* facility_type.replace('_', ' ').title()
TypeTitle(t) ==
    CASE t = "truck_stop"    -> << "T", "r", "u", "c", "k", " ", "S", "t", "o", "p" >>
      [] t = "rest_area"     -> << "R", "e", "s", "t", " ", "A", "r", "e", "a" >>
      [] t = "parking"       -> << "P", "a", "r", "k", "i", "n", "g" >>
      [] t = "service_plaza" -> << "S", "e", "r", "v", "i", "c", "e", " ",
                                   "P", "l", "a", "z", "a" >>
      [] OTHER               -> << "W", "a", "r", "e", "h", "o", "u", "s", "e" >>

\* str(n) for n >= 0
RECURSIVE Decimal(_)
Decimal(n) ==
    IF n < 10 THEN << Base32[1 + n] >>
    ELSE Decimal(n \div 10) \o << Base32[1 + (n % 10)] >>

\* f"{x:.4f}" of a coordinate given in 1e-5 degrees
Fixed4(x) ==
    LET q == (Abs(x) + 5) \div 10
    IN  (IF x < 0 THEN << "-" >> ELSE << >>)
            \o Decimal(q \div 10000) \o << "." >> \o ZeroPad(q % 10000, 4)

\* f"{type title} ({lat:.4f}, {lon:.4f})"
SynthesizedName(t, lat, lon) ==
    TypeTitle(t) \o << " ", "(" >> \o Fixed4(lat) \o << ",", " " >>
                 \o Fixed4(lon) \o << ")" >>

\* The name taken from the tags alone.
TagName(e, t, lat, lon) ==
    IF e.name # << >> THEN e.name
    ELSE IF e.operator # << >> THEN e.operator
    ELSE e.brand

\* tags.get("name") or tags.get("operator") or tags.get("brand") or f"..."
FacilityName(e, t, lat, lon) ==
    IF e.name # << >> THEN e.name
    ELSE IF e.operator # << >> THEN e.operator
    ELSE IF e.brand # << >> THEN e.brand
    ELSE SynthesizedName(t, lat, lon)

\* element["type"] raises KeyError when the key is absent
ParseRaises(e) == e.type = "missing"

ElementLat(e) == IF e.type = "node" THEN e.lat ELSE e.clat
ElementLon(e) == IF e.type = "node" THEN e.lon ELSE e.clon

\* parse_osm_element returns None
ParseIsNone(e) ==
    \/ e.type # "node" /\ ~e.hasCenter
    \/ ElementLat(e) = 0
    \/ ElementLon(e) = 0

\* The facility record parse_osm_element returns (when it returns one); the
\* columns that no decision of this module reads are left out.
parse_osm_element(lib, e) ==
    LET lat == ElementLat(e)
        lon == ElementLon(e)
        t   == FacilityType(e)
    IN  [ name      |-> FacilityName(e, t, lat, lon),
          type      |-> t,
          latitude  |-> lat,
          longitude |-> lon,
          geohash   |-> encode_geohash(lib, lat, lon, 12),
          osm_id    |-> e.id ]

\* ------------------------------------------------------------------------
\* check_duplicate_facility
\* ------------------------------------------------------------------------

\* threshold_miles = 0.05, in 1e-4 miles
DUPLICATE_THRESHOLD == 500

\* DupByOsmId testing the result object instead of result.data
DupByOsmIdAnyResult(rows, facility) == facility.osm_id # 0

\* The rows a select(...).eq("osm_id", ...) returns are non-empty.
DupByOsmId(rows, facility) ==
    /\ facility.osm_id # 0
    /\ \E i \in 1..Len(rows) : rows[i].osm_id = facility.osm_id

\* SimilarName by equality alone
SameName(n1, n2) == Lower(n1) = Lower(n2)

\* name1 == name2 or name1 in name2 or name2 in name1, on lowered names
SimilarName(n1, n2) ==
    LET name1 == Lower(n1)
        name2 == Lower(n2)
    IN  name1 = name2 \/ IsSubstring(name1, name2) \/ IsSubstring(name2, name1)

\* .like("geohash", f"{geohash_prefix}%")
GeohashLike(geohash, prefix) == Prefix(geohash, Len(prefix)) = prefix

\* The loop over the rows of the candidate's 6-character cell.
DupByProximity(rows, facility, threshold) ==
    \E i \in 1..Len(rows) :
        /\ GeohashLike(rows[i].geohash, Prefix(facility.geohash, 6))
        /\ calculate_distance(facility.latitude, facility.longitude,
                              rows[i].latitude, rows[i].longitude) <= threshold
        /\ SimilarName(facility.name, rows[i].name)

\* The whole function against one state of the table.
check_duplicate_facility(rows, facility) ==
    DupByOsmId(rows, facility) \/ DupByProximity(rows, facility, DUPLICATE_THRESHOLD)

\* ------------------------------------------------------------------------
\* find_nearby_facility: the lookup in the store
\* ------------------------------------------------------------------------

\* max_distance_miles = 0.3, the default and what every caller passes
MAX_DISTANCE_MILES == 3000

\* (None, None)
NoFacility == [id |-> 0, name |-> << >>]

\* search_radius_deg = max_distance_miles / 69.0 * 1.5, in 1e-5 degrees
SearchRadiusDeg(max_distance) == (max_distance * 15) \div 69

\* .gte("latitude", lat_min).lte("latitude", lat_max)
\* .gte("longitude", lng_min).lte("longitude", lng_max)
InSearchBox(row, lat, lon, max_distance) ==
    LET r == SearchRadiusDeg(max_distance)
    IN  /\ row.latitude >= lat - r /\ row.latitude <= lat + r
        /\ row.longitude >= lon - r /\ row.longitude <= lon + r

\* facilities.data: the rows of the table inside the box, in table order
RECURSIVE SelectBox(_, _, _, _)
SelectBox(rows, lat, lon, max_distance) ==
    IF rows = << >> THEN << >>
    ELSE (IF InSearchBox(Head(rows), lat, lon, max_distance)
          THEN << Head(rows) >> ELSE << >>)
         \o SelectBox(Tail(rows), lat, lon, max_distance)

\* Closer without the comparison with the nearest so far
CloserWithinRadius(distance, max_distance, nearest) == distance <= max_distance

\* if distance <= max_distance_miles and distance < nearest_distance
Closer(distance, max_distance, nearest) ==
    /\ distance <= max_distance
    /\ (nearest = << >> \/ distance < nearest[1].distance)

\* The loop over facilities.data; nearest is << >> (None) or the one-element
\* sequence of [facility, distance].
RECURSIVE NearestLoop(_, _, _, _, _)
NearestLoop(fetched, lat, lon, max_distance, nearest) ==
    IF fetched = << >> THEN nearest
    ELSE LET f == Head(fetched)
             d == calculate_distance(lat, lon, f.latitude, f.longitude)
         IN  NearestLoop(Tail(fetched), lat, lon, max_distance,
                         IF Closer(d, max_distance, nearest)
                         THEN << [facility |-> f, distance |-> d] >>
                         ELSE nearest)

\* Lines 420-455: (id, name) of the nearest facility found, or NoFacility.
Lookup(rows, lat, lon, max_distance) ==
    LET nearest == NearestLoop(SelectBox(rows, lat, lon, max_distance),
                               lat, lon, max_distance, << >>)
    IN  IF nearest = << >> THEN NoFacility
        ELSE [id |-> nearest[1].facility.id, name |-> nearest[1].facility.name]

\* ------------------------------------------------------------------------
\* The scan cache: should_query_osm and _update_query_cache
\* ------------------------------------------------------------------------
\* A row of osm_query_cache is
\*   [geohash_prefix, last_queried_at, facilities_found, query_count]

\* select(...).eq("geohash_prefix", geohash)
CacheSelect(rows, prefix) ==
    SelectSeq(rows, LAMBDA r : r.geohash_prefix = prefix)

\* IsStale with the comparison off by one: age >= timedelta(days=30)
IsStaleFromDay30(last_queried, now) == now - last_queried >= CACHE_REFRESH_DAYS

\* age > timedelta(days=CACHE_REFRESH_DAYS)
IsStale(last_queried, now) == now - last_queried > CACHE_REFRESH_DAYS

\* should_query_osm that holds any record for fresh
ShouldQueryUnlessRecord(rows, prefix, now) == CacheSelect(rows, prefix) = << >>

\* should_query_osm against one state of the table.  .single() raises
\* unless exactly one row matches, and the except branch returns True.
should_query_osm(rows, prefix, now) ==
    LET data == CacheSelect(rows, prefix)
    IN  IF Len(data) # 1 THEN TRUE
        ELSE IsStale(data[1].last_queried_at, now)

\* CacheUpdated without "last_queried_at" in the update
CacheUpdatedKeepsTime(rows, prefix, now, facilities_found, query_count) ==
    [i \in 1..Len(rows) |->
        IF rows[i].geohash_prefix = prefix
        THEN [rows[i] EXCEPT !.facilities_found = facilities_found,
                             !.query_count = query_count]
        ELSE rows[i]]

\* update({...}).eq("geohash_prefix", geohash)
CacheUpdated(rows, prefix, now, facilities_found, query_count) ==
    [i \in 1..Len(rows) |->
        IF rows[i].geohash_prefix = prefix
        THEN [rows[i] EXCEPT !.last_queried_at = now,
                             !.facilities_found = facilities_found,
                             !.query_count = query_count]
        ELSE rows[i]]

\* osm_query_cache is unique by geohash_prefix.
CacheInsertAccepted(rows, prefix) ==
    \A i \in 1..Len(rows) : rows[i].geohash_prefix # prefix

\* insert({...}); a rejected insert raises, and the except branch of
\* _update_query_cache logs the error and goes on.
CacheInserted(rows, prefix, now, facilities_found) ==
    IF CacheInsertAccepted(rows, prefix)
    THEN Append(rows, [geohash_prefix   |-> prefix,
                       last_queried_at  |-> now,
                       facilities_found |-> facilities_found,
                       query_count      |-> 1])
    ELSE rows

\* The write of _update_query_cache, given the rows its select returned.
CacheWritten(rows, data, prefix, now, facilities_found) ==
    IF data # << >>
    THEN CacheUpdated(rows, prefix, now, facilities_found, data[1].query_count + 1)
    ELSE CacheInserted(rows, prefix, now, facilities_found)

\* ------------------------------------------------------------------------
\* The facilities table
\* ------------------------------------------------------------------------

\* A facilities table without the unique index on osm_id
AnyInsertAccepted(rows, facility) == TRUE

\* facilities is unique by osm_id where osm_id is not null.
FacilityInsertAccepted(rows, facility) ==
    \/ facility.osm_id = 0
    \/ \A i \in 1..Len(rows) : rows[i].osm_id # facility.osm_id

\* The row the store makes of an inserted record: the store assigns the id.
StoredRow(rows, facility) ==
    [ id        |-> Len(rows) + 1,
      name      |-> facility.name,
      type      |-> facility.type,
      latitude  |-> facility.latitude,
      longitude |-> facility.longitude,
      geohash   |-> facility.geohash,
      osm_id    |-> facility.osm_id ]

\* An insert that merges the record into a stored facility of the same
\* place: the row of the same point is replaced.
FacilityMerged(rows, facility) ==
    IF \E i \in 1..Len(rows) : calculate_distance(facility.latitude, facility.longitude,
                                                  rows[i].latitude, rows[i].longitude)
                                   <= DUPLICATE_THRESHOLD
    THEN [i \in 1..Len(rows) |->
             IF calculate_distance(facility.latitude, facility.longitude,
                                   rows[i].latitude, rows[i].longitude)
                    <= DUPLICATE_THRESHOLD
             THEN [StoredRow(rows, facility) EXCEPT !.id = rows[i].id]
             ELSE rows[i]]
    ELSE Append(rows, StoredRow(rows, facility))

\* db.from_("facilities").insert(facility): one more row.
FacilityInserted(rows, facility) == Append(rows, StoredRow(rows, facility))

\* ------------------------------------------------------------------------
\* query_osm_nearby and the provider
\* ------------------------------------------------------------------------

\* radius_lat = radius_miles / 69.0, in 1e-5 degrees
RadiusLat(radius_miles) == (radius_miles * 10) \div 69

\* radius_lng = radius_miles / (69.0 * math.cos(math.radians(latitude)))
RadiusLng(radius_miles, lat) == (radius_miles * 1000) \div ((69 * CosE4(lat)) \div 100)

\* (south, west, north, east) of the query holds the element's point
InQueryBox(e, lat, lon, radius_miles) ==
    /\ ElementLat(e) >= lat - RadiusLat(radius_miles)
    /\ ElementLat(e) <= lat + RadiusLat(radius_miles)
    /\ ElementLon(e) >= lon - RadiusLng(radius_miles, lat)
    /\ ElementLon(e) <= lon + RadiusLng(radius_miles, lat)

NoTags ==
    [ amenity |-> "", hgv |-> "", highway |-> "", building |-> "",
      industrial |-> "", name |-> << >>, operator |-> << >>, brand |-> << >> ]

Element(type, id, lat, lon, hasCenter, clat, clon, tags) ==
    [ type |-> type, id |-> id, lat |-> lat, lon |-> lon,
      hasCenter |-> hasCenter, clat |-> clat, clon |-> clon,
      amenity |-> tags.amenity, hgv |-> tags.hgv, highway |-> tags.highway,
      building |-> tags.building, industrial |-> tags.industrial,
      name |-> tags.name, operator |-> tags.operator, brand |-> tags.brand ]

\* What the provider knows around the callers: a fuel station mapped twice
\* (a node, and the outline of its building 0.02 miles away) and a
\* warehouse outline that comes without its center.
LovesNode ==
    Element("node", 101, 3677900, -11941700, FALSE, 0, 0,
            [NoTags EXCEPT !.amenity = "fuel", !.hgv = "yes",
                           !.name = << "L", "o", "v", "e", "s" >>])

LovesWay ==
    Element("way", 102, 0, 0, TRUE, 3677930, -11941720,
            [NoTags EXCEPT !.amenity = "fuel",
                           !.name = << "L", "O", "V", "E", "S", " ", "#", "1" >>])

DepotWay ==
    Element("way", 103, 0, 0, FALSE, 0, 0,
            [NoTags EXCEPT !.building = "warehouse"])

\* The provider's data, in the order it lists them.
OsmCatalogue == << LovesNode, LovesWay, DepotWay >>

\* The "elements" lists a successful query may carry: what the provider
\* holds inside the box (an outline without center has no point to test),
\* or nothing when it holds no data for the area yet.
Payloads(lat, lon, radius_miles) ==
    { << >>,
      SelectSeq(OsmCatalogue,
                LAMBDA e : ParseIsNone(e) \/ InQueryBox(e, lat, lon, radius_miles)) }

\* How the HTTP exchange ends, other than with a well-formed payload:
\*   timeout     requests.exceptions.Timeout
\*   http_error  raise_for_status() raises HTTPError, a RequestException
\*   bad_json    the body is not JSON: response.json() raises; whether the
\*               error raised is a RequestException depends on the
\*               installed version of requests
\*   not_object  the body is JSON but no object: data.get raises
\*               AttributeError
ProviderFailures == { "timeout", "http_error", "bad_json", "not_object" }

\* A query_osm_nearby without its except branches: every failure leaves
\* the function as an exception.
FailuresRaise(failure) == { "raise" }

\* What query_osm_nearby does with a failure: "empty" (returns []) or
\* "raise" (the exception leaves the function).
FailureResults(failure) ==
    CASE failure \in { "timeout", "http_error" } -> { "empty" }
      [] failure = "bad_json"                    -> { "empty", "raise" }
      [] OTHER                                   -> { "raise" }

\* ------------------------------------------------------------------------
\* The state machine: concurrent callers of find_nearby_facility, which
\* calls discover_facilities.  Every request to the store and to the provider is
\* one step; what a caller computes between two requests belongs to the
\* step of the request before it.
\* ------------------------------------------------------------------------

\* The callers: two request handlers running at the same time.
Procs == { 1, 2 }

\* Where the callers are.  Both lie in one cell of the fallback grid and in
\* two cells of the geohash grid; the fuel station is 0.07 miles from the
\* first and 0.55 miles from the second.
QueryCoords ==
    { [lat |-> 3677830, lon |-> -11941790],
      [lat |-> 3677100, lon |-> -11941790] }

\* Calls started in one run of the model.
MaxCalls == 2

\* Clock steps taken in one run of the model.
MaxTicks == 2

VARIABLES
    facilities,   \* the facilities table: a sequence of rows
    cache,        \* the osm_query_cache table: a sequence of rows
    now,          \* datetime.utcnow(), in days
    ghLib,        \* whether `import geohash` succeeds
    th,           \* th[p]: the frame of caller p
    ncalls,       \* history: calls started so far
    overlap,      \* history: the pairs of calls that ran at the same time
    qlog,         \* history: the provider queries issued
    passes,       \* history: osm_id -> times a candidate with it went
                  \*          through the duplicate check (counted to 2)
    driver_locations, \* the driver_locations table: a sequence of rows
    drivers,      \* the drivers table: driver id -> [status, last_active]
    hd,           \* hd[p]: the frame of location handler p
    written,      \* history: driver id -> the location writes the store
                  \*          applied for the driver, latest last
    calc          \* a call of a pure function: its arguments and value

\* What find_nearby_facility and discover_facilities leave alone.
otherVars == << driver_locations, drivers, hd, written, calc >>

vars == << facilities, cache, now, ghLib, th, ncalls, overlap, qlog, passes,
           otherVars >>

\* No driver, no handler at work, no pure call.
NoDrivers ==
    /\ driver_locations = << >>
    /\ drivers = << >>
    /\ hd = << >>
    /\ written = << >>
    /\ calc = << >>

Idle ==
    [ pc |-> "idle", lat |-> 0, lon |-> 0, discover |-> FALSE,
      elems |-> << >>, nfound |-> 0, imported |-> 0, cand |-> << >>,
      data |-> << >>, res |-> NoFacility, failure |-> "", call |-> 0,
      missed |-> FALSE, lookups |-> 0, scans |-> 0, rejected |-> 0,
      stamp |-> 0 ]

Init ==
    /\ facilities = << >>
    /\ cache = << >>
    /\ now = 0
    /\ ghLib \in BOOLEAN
    /\ th = [p \in Procs |-> Idle]
    /\ ncalls = 0
    /\ overlap = { }
    /\ qlog = << >>
    /\ passes = [id \in { OsmCatalogue[i].id : i \in 1..Len(OsmCatalogue) } |-> 0]
    /\ NoDrivers

\* The 6-character cell of caller p's coordinate.
CellOf(t) == encode_geohash(ghLib, t.lat, t.lon, GEOHASH_PRECISION)

Active(p) == th[p].pc # "idle"

\* DiscoverWanted ignoring the flag
DiscoverAlways(discover_if_missing) == TRUE

\* if discover_if_missing:
DiscoverWanted(discover_if_missing) == discover_if_missing

\* RetryWanted without the test of the number imported
RetryAlways(discovered) == TRUE

\* if discovered > 0:
RetryWanted(discovered) == discovered > 0

\* discover_facilities returns n to its caller: find_nearby_facility
\* retries the lookup or returns (None, None).
ReturnFromDiscover(t, n) ==
    IF RetryWanted(n) THEN [t EXCEPT !.pc = "retry", !.imported = n]
    ELSE [t EXCEPT !.pc = "done", !.imported = n, !.res = NoFacility]

\* The loop of discover_facilities goes on to the next element, or leaves
\* for _update_query_cache.
NextElement(t) ==
    LET rest == Tail(t.elems)
    IN  [t EXCEPT !.elems = rest, !.cand = << >>,
                  !.pc = IF rest = << >> THEN "cache_select" ELSE "filter"]

Counted(id) ==
    IF id \in DOMAIN passes
    THEN [passes EXCEPT ![id] = Min(2, @ + 1)]
    ELSE passes

\* A request handler calls find_nearby_facility.  The callers are alike: a
\* call goes to the first one that is free.
Call(p, discover_if_missing) ==
    /\ th[p].pc = "idle"
    /\ \A q \in Procs : q < p => Active(q)
    /\ ncalls < MaxCalls
    /\ \E c \in QueryCoords :
          th' = [th EXCEPT ![p] =
                    [Idle EXCEPT !.pc = "lookup",
                                 !.lat = c.lat, !.lon = c.lon,
                                 !.discover = discover_if_missing,
                                 !.call = ncalls + 1]]
    /\ ncalls' = ncalls + 1
    /\ overlap' = overlap \cup { { ncalls + 1, th[q].call } : q \in { r \in Procs : Active(r) } }
    /\ UNCHANGED << facilities, cache, now, ghLib, qlog, passes, otherVars >>

\* find_nearby_facility(db, latitude, longitude, discover_if_missing=...)
Start(p) == \E discover_if_missing \in BOOLEAN : Call(p, discover_if_missing)

\* find_nearby_facility(db, latitude, longitude, discover_if_missing=False)
StartLookup(p) == Call(p, FALSE)

\* find_nearby_facility, lines 420-462: the select on facilities and the
\* loop over its rows.
FirstLookup(p) ==
    LET t == th[p]
        r == Lookup(facilities, t.lat, t.lon, MAX_DISTANCE_MILES)
    IN  /\ t.pc = "lookup"
        /\ th' = [th EXCEPT ![p] =
                    IF r # NoFacility
                    THEN [t EXCEPT !.pc = "done", !.res = r, !.lookups = 1]
                    ELSE IF DiscoverWanted(t.discover)
                    THEN [t EXCEPT !.pc = "check", !.missed = TRUE,
                                   !.lookups = 1, !.scans = 1]
                    ELSE [t EXCEPT !.pc = "done", !.missed = TRUE,
                                   !.res = NoFacility, !.lookups = 1]]
        /\ UNCHANGED << facilities, cache, now, ghLib, ncalls, overlap, qlog, passes, otherVars >>

\* discover_facilities, lines 314-317: should_query_osm.
CheckCache(p) ==
    LET t == th[p]
    IN  /\ t.pc = "check"
        /\ th' = [th EXCEPT ![p] =
                    IF should_query_osm(cache, CellOf(t), now)
                    THEN [t EXCEPT !.pc = "query",
                                   !.data = CacheSelect(cache, CellOf(t))]
                    ELSE ReturnFromDiscover(t, 0)]
        /\ UNCHANGED << facilities, cache, now, ghLib, ncalls, overlap, qlog, passes, otherVars >>

\* The history's record of a provider query: when and for which cell it
\* was issued, whether the caller had found a scan record, how it ended
\* ("empty", "found" or "raised") and whether the caller has since gone
\* through the write of _update_query_cache.
QueryRecord(t, result) ==
    [ call |-> t.call, lat |-> t.lat, lon |-> t.lon, cell |-> CellOf(t),
      at |-> now, norecord |-> t.data = << >>, result |-> result,
      failure |-> t.failure, recorded |-> FALSE ]

Recorded(call) ==
    [i \in 1..Len(qlog) |->
        IF qlog[i].call = call THEN [qlog[i] EXCEPT !.recorded = TRUE] ELSE qlog[i]]

\* AfterQuery returning 0 for an empty result without caching the query
AfterQueryForgetsEmpty(t, osm_elements) ==
    IF osm_elements = << >>
    THEN ReturnFromDiscover(t, 0)
    ELSE [t EXCEPT !.pc = "filter", !.elems = osm_elements,
                   !.nfound = Len(osm_elements)]

\* Lines 322-328: an empty result is cached and 0 returned, a non-empty
\* one goes through the loop.
AfterQuery(t, osm_elements) ==
    IF osm_elements = << >>
    THEN [t EXCEPT !.pc = "cache_select", !.elems = << >>, !.nfound = 0]
    ELSE [t EXCEPT !.pc = "filter", !.elems = osm_elements,
                   !.nfound = Len(osm_elements)]

\* query_osm_nearby: the provider answers with a payload.
QueryAnswered(p) ==
    LET t == th[p]
    IN  /\ t.pc = "query"
        /\ \E osm_elements \in Payloads(t.lat, t.lon, QUERY_RADIUS_MILES) :
              /\ th' = [th EXCEPT ![p] =
                          AfterQuery([t EXCEPT !.data = << >>], osm_elements)]
              /\ qlog' = Append(qlog, QueryRecord(t, IF osm_elements = << >>
                                                     THEN "empty" ELSE "found"))
        /\ UNCHANGED << facilities, cache, now, ghLib, ncalls, overlap, passes, otherVars >>

\* query_osm_nearby: the exchange fails.
QueryFailed(p) ==
    LET t == th[p]
    IN  /\ t.pc = "query"
        /\ \E failure \in ProviderFailures : \E result \in FailureResults(failure) :
              /\ th' = [th EXCEPT ![p] =
                          IF result = "empty"
                          THEN AfterQuery([t EXCEPT !.data = << >>,
                                                    !.failure = failure], << >>)
                          ELSE [t EXCEPT !.pc = "raised", !.data = << >>,
                                         !.failure = failure]]
              /\ qlog' = Append(qlog, QueryRecord([t EXCEPT !.failure = failure],
                                                   IF result = "empty"
                                                   THEN "empty" ELSE "raised"))
        /\ UNCHANGED << facilities, cache, now, ghLib, ncalls, overlap, passes, otherVars >>

\* Lines 330-338 and 264-281: parse the next element and send the first
\* select of check_duplicate_facility: by osm_id when the candidate has
\* one, else by geohash prefix.
Filter(p) ==
    LET t == th[p]
        e == Head(t.elems)
        f == parse_osm_element(ghLib, e)
    IN  /\ t.pc = "filter"
        /\ th' = [th EXCEPT ![p] =
                    IF ParseRaises(e) THEN [t EXCEPT !.pc = "raised"]
                    ELSE IF ParseIsNone(e) THEN NextElement(t)
                    ELSE IF f.osm_id # 0
                    THEN IF DupByOsmId(facilities, f) THEN NextElement(t)
                         ELSE [t EXCEPT !.pc = "proximity", !.cand = << f >>]
                    ELSE IF DupByProximity(facilities, f, DUPLICATE_THRESHOLD)
                    THEN NextElement(t)
                    ELSE [t EXCEPT !.pc = "insert", !.cand = << f >>]]
        /\ passes' = IF ~ParseRaises(e) /\ ~ParseIsNone(e) /\ DupByOsmId(facilities, f)
                     THEN Counted(f.osm_id) ELSE passes
        /\ UNCHANGED << facilities, cache, now, ghLib, ncalls, overlap, qlog, otherVars >>

\* Lines 275-304: the select by geohash prefix and the loop over its rows.
Proximity(p) ==
    LET t == th[p]
        f == t.cand[1]
        dup == DupByProximity(facilities, f, DUPLICATE_THRESHOLD)
    IN  /\ t.pc = "proximity"
        /\ th' = [th EXCEPT ![p] =
                    IF dup THEN NextElement(t) ELSE [t EXCEPT !.pc = "insert"]]
        /\ passes' = IF dup THEN Counted(f.osm_id) ELSE passes
        /\ UNCHANGED << facilities, cache, now, ghLib, ncalls, overlap, qlog, otherVars >>

\* ImportedAfter counting the attempt, not the row
ImportedAfterAttempt(imported, inserted) == imported + 1

\* if result.data: imported += 1
ImportedAfter(imported, inserted) ==
    IF inserted THEN imported + 1 ELSE imported

\* Lines 340-348: the insert; a rejected insert raises and the loop goes on.
Insert(p) ==
    LET t == th[p]
        f == t.cand[1]
        ok == FacilityInsertAccepted(facilities, f)
    IN  /\ t.pc = "insert"
        /\ facilities' = IF ok THEN FacilityInserted(facilities, f)
                               ELSE facilities
        /\ th' = [th EXCEPT ![p] =
                    NextElement([t EXCEPT !.imported = ImportedAfter(@, ok),
                                          !.rejected = IF ok THEN @ ELSE @ + 1])]
        /\ passes' = Counted(f.osm_id)
        /\ UNCHANGED << cache, now, ghLib, ncalls, overlap, qlog, otherVars >>

\* _update_query_cache, lines 367-377: the select; with its rows at hand
\* the caller reads the clock (datetime.utcnow()) into the record it is
\* about to send.
CacheRead(p) ==
    LET t == th[p]
    IN  /\ t.pc = "cache_select"
        /\ th' = [th EXCEPT ![p] =
                    [t EXCEPT !.pc = "cache_write",
                              !.data = CacheSelect(cache, CellOf(t)),
                              !.stamp = now]]
        /\ UNCHANGED << facilities, cache, now, ghLib, ncalls, overlap, qlog, passes, otherVars >>

\* _update_query_cache, lines 372-389: the store applies the update or the
\* insert; then discover_facilities returns the number imported.
CacheWrite(p) ==
    LET t == th[p]
    IN  /\ t.pc = "cache_write"
        /\ cache' = CacheWritten(cache, t.data, CellOf(t), t.stamp, t.nfound)
        /\ th' = [th EXCEPT ![p] =
                    ReturnFromDiscover([t EXCEPT !.data = << >>, !.failure = "",
                                                 !.stamp = 0],
                                       t.imported)]
        /\ qlog' = Recorded(t.call)
        /\ UNCHANGED << facilities, now, ghLib, ncalls, overlap, passes, otherVars >>

\* A nested call that may discover again: with nothing found it goes back
\* to discover_facilities.
RetriedWithDiscovery(t, r) ==
    IF r # NoFacility
    THEN [t EXCEPT !.pc = "done", !.lookups = @ + 1, !.res = r]
    ELSE [t EXCEPT !.pc = "check", !.lookups = @ + 1, !.scans = @ + 1]

\* The nested call has discover_if_missing=False: whatever its lookup
\* finds, (None, None) included, is the value of both calls.
Retried(t, r) == [t EXCEPT !.pc = "done", !.lookups = @ + 1, !.res = r]

\* Line 466: find_nearby_facility(..., discover_if_missing=False).
RetryLookup(p) ==
    LET t == th[p]
    IN  /\ t.pc = "retry"
        /\ th' = [th EXCEPT ![p] =
                    Retried(t, Lookup(facilities, t.lat, t.lon, MAX_DISTANCE_MILES))]
        /\ UNCHANGED << facilities, cache, now, ghLib, ncalls, overlap, qlog, passes, otherVars >>

\* The call is over: its value, or its exception, is the caller's.
Return(p) ==
    /\ th[p].pc \in { "done", "raised" }
    /\ th' = [th EXCEPT ![p] = Idle]
    /\ UNCHANGED << facilities, cache, now, ghLib, ncalls, overlap, qlog, passes, otherVars >>

\* Clock steps taken so far: days pass one at a time or a window at a time.
Ticks(t) == (t \div CACHE_REFRESH_DAYS) + (t % CACHE_REFRESH_DAYS)

\* Time passes between calls, by a day or by a staleness window.  A call is
\* over within the timeouts of its requests (35 seconds for the provider):
\* on the scale of days it takes no time.  Day 0 is the day of the first
\* call.
Tick ==
    /\ Ticks(now) < MaxTicks
    /\ ncalls > 0
    /\ \A p \in Procs : ~Active(p)
    /\ \E d \in { 1, CACHE_REFRESH_DAYS } : now' = now + d
    /\ UNCHANGED << facilities, cache, ghLib, th, ncalls, overlap, qlog, passes, otherVars >>

Next ==
    \/ \E p \in Procs :
          \/ Start(p)
          \/ FirstLookup(p)
          \/ CheckCache(p)
          \/ QueryAnswered(p)
          \/ QueryFailed(p)
          \/ Filter(p)
          \/ Proximity(p)
          \/ Insert(p)
          \/ CacheRead(p)
          \/ CacheWrite(p)
          \/ RetryLookup(p)
          \/ Return(p)
    \/ Tick

Spec == Init /\ [][Next]_vars

\* What a caller does once inside find_nearby_facility.  Each step is a
\* request to the store or to the provider with the code that follows it;
\* a request that is answered or times out lets the caller go on (the
\* provider request has timeout=35).
Steps(p) ==
    \/ FirstLookup(p)
    \/ CheckCache(p)
    \/ QueryAnswered(p)
    \/ QueryFailed(p)
    \/ Filter(p)
    \/ Proximity(p)
    \/ Insert(p)
    \/ CacheRead(p)
    \/ CacheWrite(p)
    \/ RetryLookup(p)

\* Caller p is inside find_nearby_facility, before its end.
Inside(p) == th[p].pc \notin { "idle", "done", "raised" }

\* Weak fairness of Steps(p), written with what enables it: Steps(p) is
\* enabled exactly when p is inside a call, and there it is the only
\* action that changes th[p].
StepsFair(p) ==
    \/ []<>(~Inside(p))
    \/ []<><< Inside(p) /\ th'[p] # th[p] >>_vars

\* Spec with every request of every caller answered in the end, and every
\* call that is over handing its value or exception to its caller.
SpecLive == Spec /\ \A p \in Procs : StepsFair(p) /\ WF_vars(Return(p))

\* ------------------------------------------------------------------------
\* The lookup alone, over the contents of the facilities table
\* ------------------------------------------------------------------------

\* Rows of the facilities table at the start.
MaxRows == 3

\* A facility at an offset, in 1e-5 degrees, from the first of QueryCoords.
Stored(name, dlat, dlon) ==
    [ name      |-> name,
      type      |-> "truck_stop",
      latitude  |-> 3677830 + dlat,
      longitude |-> -11941790 + dlon,
      geohash   |-> encode_geohash(TRUE, 3677830 + dlat, -11941790 + dlon, 12),
      osm_id    |-> 0 ]

\* Stored facilities about the callers: two within 0.3 miles of the first
\* caller at one distance, north and south of it; one nearer; one in its
\* box and beyond 0.3 miles; one outside its box; and one within 0.3
\* miles of the second caller and, inside the first caller's box, beyond
\* 0.3 miles of the first.
StoredSamples ==
    { Stored(<< "N" >>, 100, 0), Stored(<< "S" >>, -100, 0),
      Stored(<< "N", "r" >>, -50, 0), Stored(<< "C" >>, 500, 0),
      Stored(<< "O" >>, 700, 0), Stored(<< "B" >>, -400, 300) }

\* The table after the facilities of a sequence were inserted in order.
RECURSIVE TableOf(_)
TableOf(inserted) ==
    IF inserted = << >> THEN << >>
    ELSE LET rows == TableOf(SubSeq(inserted, 1, Len(inserted) - 1))
         IN  Append(rows, StoredRow(rows, inserted[Len(inserted)]))

InitLookup ==
    /\ ghLib = TRUE
    /\ facilities \in { TableOf(inserted) :
                           inserted \in UNION { [1..n -> StoredSamples] : n \in 0..MaxRows } }
    /\ cache = << >>
    /\ now = 0
    /\ th = [p \in Procs |-> Idle]
    /\ ncalls = 0
    /\ overlap = { }
    /\ qlog = << >>
    /\ passes = [id \in { OsmCatalogue[i].id : i \in 1..Len(OsmCatalogue) } |-> 0]
    /\ NoDrivers

NextLookup ==
    \E p \in Procs :
        \/ StartLookup(p)
        \/ FirstLookup(p)
        \/ Return(p)

SpecLookup == InitLookup /\ [][NextLookup]_vars

\* ------------------------------------------------------------------------
\* _update_query_cache alone, with the clock running during the calls
\* ------------------------------------------------------------------------
\* Here `now` counts the instants at which a caller may read the clock, not
\* days: between a caller's reading of the clock and the store's applying
\* of its write, other callers read the clock and write.

\* Instants of the clock in one run.
MaxInstants == 2

\* A scan record written before the run.
EarlierRecord(c) ==
    [ geohash_prefix   |-> encode_geohash(ghLib, c.lat, c.lon, GEOHASH_PRECISION),
      last_queried_at  |-> 0,
      facilities_found |-> 0,
      query_count      |-> 1 ]

InitCache ==
    /\ ghLib \in BOOLEAN
    /\ facilities = << >>
    /\ cache \in { << >> } \cup { << EarlierRecord(c) >> : c \in QueryCoords }
    /\ now = 0
    /\ th = [p \in Procs |-> Idle]
    /\ ncalls = 0
    /\ overlap = { }
    /\ qlog = << >>
    /\ passes = [id \in { OsmCatalogue[i].id : i \in 1..Len(OsmCatalogue) } |-> 0]
    /\ NoDrivers

\* discover_facilities calls _update_query_cache(db, latitude, longitude,
\* 0) or (..., len(osm_elements)).
UpdateStart(p) ==
    /\ th[p].pc = "idle"
    /\ \A q \in Procs : q < p => Active(q)
    /\ ncalls < MaxCalls
    /\ \E c \in QueryCoords, facilities_found \in { 0, Len(OsmCatalogue) } :
          th' = [th EXCEPT ![p] =
                    [Idle EXCEPT !.pc = "cache_select",
                                 !.lat = c.lat, !.lon = c.lon,
                                 !.nfound = facilities_found,
                                 !.call = ncalls + 1]]
    /\ ncalls' = ncalls + 1
    /\ overlap' = overlap \cup { { ncalls + 1, th[q].call } : q \in { r \in Procs : Active(r) } }
    /\ UNCHANGED << facilities, cache, now, ghLib, qlog, passes, otherVars >>

\* The clock goes on, whatever the callers do.
Instant ==
    /\ now < MaxInstants
    /\ now' = now + 1
    /\ UNCHANGED << facilities, cache, ghLib, th, ncalls, overlap, qlog, passes, otherVars >>

NextCache ==
    \/ \E p \in Procs :
          \/ UpdateStart(p)
          \/ CacheRead(p)
          \/ CacheWrite(p)
          \/ Return(p)
    \/ Instant

SpecCache == InitCache /\ [][NextCache]_vars

\* ------------------------------------------------------------------------
\* The loop of discover_facilities alone, over what the provider returned
\* ------------------------------------------------------------------------

\* A fuel station mapped twice, 0.02 miles apart, by a node and by the
\* outline of its building: the two points lie on the two sides of the
\* line between the geohash cells 9qe14x and 9qe14w.
PilotNode ==
    Element("node", 201, 3677690, -11941790, FALSE, 0, 0,
            [NoTags EXCEPT !.amenity = "fuel", !.hgv = "yes",
                           !.name = << "P", "i", "l", "o", "t" >>])

PilotWay ==
    Element("way", 202, 0, 0, TRUE, 3677660, -11941790,
            [NoTags EXCEPT !.amenity = "fuel",
                           !.name = << "P", "I", "L", "O", "T", " ", "#", "2" >>])

\* A rest area without a name, and a fuel station known by its operator.
RestAreaNode ==
    Element("node", 203, 3677900, -11941600, FALSE, 0, 0,
            [NoTags EXCEPT !.highway = "rest_area"])

TaNode ==
    Element("node", 204, 3677500, -11941900, FALSE, 0, 0,
            [NoTags EXCEPT !.amenity = "fuel", !.operator = << "T", "A" >>])

DedupCatalogue == << PilotNode, PilotWay, RestAreaNode, TaNode >>

\* The "elements" lists of one or two of these, in the provider's order.
DedupPayloads ==
    { << DedupCatalogue[i] >> : i \in 1..Len(DedupCatalogue) }
    \cup { << DedupCatalogue[ij[1]], DedupCatalogue[ij[2]] >> :
              ij \in { x \in (1..Len(DedupCatalogue)) \X (1..Len(DedupCatalogue)) :
                         x[1] < x[2] } }

\* The facilities table holds nothing, or what an earlier scan stored.
InitDedup ==
    /\ ghLib \in BOOLEAN
    /\ facilities \in { << >>,
                        TableOf(<< parse_osm_element(ghLib, PilotNode) >>),
                        TableOf(<< parse_osm_element(ghLib, PilotWay) >>) }
    /\ cache = << >>
    /\ now = 0
    /\ th = [p \in Procs |-> Idle]
    /\ ncalls = 0
    /\ overlap = { }
    /\ qlog = << >>
    /\ passes = [id \in { OsmCatalogue[i].id : i \in 1..Len(OsmCatalogue) } |-> 0]
    /\ NoDrivers

\* discover_facilities at line 328: query_osm_nearby has returned a list
\* that is not empty.
ScanStart(p) ==
    /\ th[p].pc = "idle"
    /\ \A q \in Procs : q < p => Active(q)
    /\ ncalls < MaxCalls
    /\ \E osm_elements \in DedupPayloads :
          th' = [th EXCEPT ![p] =
                    AfterQuery([Idle EXCEPT !.lat = 3677830, !.lon = -11941790,
                                            !.discover = TRUE, !.missed = TRUE,
                                            !.lookups = 1, !.scans = 1,
                                            !.call = ncalls + 1],
                               osm_elements)]
    /\ ncalls' = ncalls + 1
    /\ overlap' = overlap \cup { { ncalls + 1, th[q].call } : q \in { r \in Procs : Active(r) } }
    /\ UNCHANGED << facilities, cache, now, ghLib, qlog, passes, otherVars >>

NextDedup ==
    \E p \in Procs :
        \/ ScanStart(p)
        \/ Filter(p)
        \/ Proximity(p)
        \/ Insert(p)
        \/ CacheRead(p)
        \/ CacheWrite(p)
        \/ RetryLookup(p)
        \/ Return(p)

SpecDedup == InitDedup /\ [][NextDedup]_vars

\* ------------------------------------------------------------------------
\* app/utils/location.py: fuzz_location
\* ------------------------------------------------------------------------

\* settings.location_fuzz_rolling_miles, _waiting_miles and _parked_miles,
\* in 1e-4 miles
LOCATION_FUZZ_ROLLING_MILES == 20000

LOCATION_FUZZ_WAITING_MILES == 10000

LOCATION_FUZZ_PARKED_MILES == 5000

\* x * f / 10000 for a factor f in 1e-4, rounded towards zero
Scaled(x, f) ==
    IF f < 0 THEN 0 - ((x * (0 - f)) \div 10000) ELSE (x * f) \div 10000

\* fuzz_location; angle is [cos, sin] of random.uniform(0, 2 * math.pi) in
\* 1e-4, distance is random.uniform(0, 1) in 1e-4.
fuzz_location(latitude, longitude, radius_miles, angle, distance) ==
    LET radius_lat == (radius_miles * 10) \div 69
        radius_lng == (radius_miles * 1000) \div ((69 * CosE4(latitude)) \div 100)
    IN  [ lat |-> latitude + Scaled(Scaled(radius_lat, distance), angle.cos),
          lon |-> longitude + Scaled(Scaled(radius_lng, distance), angle.sin) ]

\* Angles random.uniform(0, 2 * math.pi) can give: the four compass
\* directions and north-east.
FuzzAngles ==
    { [cos |-> 10000, sin |-> 0], [cos |-> 0, sin |-> 10000],
      [cos |-> -10000, sin |-> 0], [cos |-> 0, sin |-> -10000],
      [cos |-> 7071, sin |-> 7071] }

\* Values random.uniform(0, 1) can give: 0, 0.5 and 0.9999.
FuzzDistances == { 0, 5000, 9999 }

FuzzRadii ==
    { LOCATION_FUZZ_ROLLING_MILES, LOCATION_FUZZ_WAITING_MILES,
      LOCATION_FUZZ_PARKED_MILES }

\* ------------------------------------------------------------------------
\* The pure functions, called on their own
\* ------------------------------------------------------------------------

NoValue == [lat |-> 0, lon |-> 0, geohash |-> << >>]

PureCall(fn, lib, lat, lon, precision, radius, angle, distance) ==
    [ fn |-> fn, lib |-> lib, lat |-> lat, lon |-> lon, precision |-> precision,
      radius |-> radius, angle |-> angle, distance |-> distance,
      returned |-> FALSE, value |-> NoValue ]

\* Coordinates over the valid range, in 1e-5 degrees.
PureLats == { -8999999, -3390000, 0, 3677100, 3677830, 6000000, 8999999 }

PureLons == { -17999999, -11941790, 0, 1, 15120000, 17999999 }

EncodeCalls ==
    { PureCall("encode_geohash", lib, lat, lon, precision, 0, [cos |-> 0, sin |-> 0], 0) :
        lib \in BOOLEAN, lat \in PureLats, lon \in PureLons, precision \in { 6, 8 } }

FuzzCalls ==
    { PureCall("fuzz_location", TRUE, lat, lon, 0, radius, angle, distance) :
        lat \in { -3390000, 0, 3677830, 6000000 }, lon \in { -11941790, 15120000 },
        radius \in FuzzRadii, angle \in FuzzAngles, distance \in FuzzDistances }

InitPure ==
    /\ facilities = << >>
    /\ cache = << >>
    /\ now = 0
    /\ ghLib = TRUE
    /\ th = [p \in Procs |-> Idle]
    /\ ncalls = 0
    /\ overlap = { }
    /\ qlog = << >>
    /\ passes = [id \in { OsmCatalogue[i].id : i \in 1..Len(OsmCatalogue) } |-> 0]
    /\ driver_locations = << >>
    /\ drivers = << >>
    /\ hd = << >>
    /\ written = << >>
    /\ calc \in EncodeCalls \cup FuzzCalls

pureFrame ==
    << facilities, cache, now, ghLib, th, ncalls, overlap, qlog, passes,
       driver_locations, drivers, hd, written >>

\* encode_geohash(latitude, longitude, precision) returns.
EncodeReturns ==
    /\ calc.fn = "encode_geohash" /\ ~calc.returned
    /\ calc' = [calc EXCEPT
                   !.returned = TRUE,
                   !.value = [NoValue EXCEPT !.geohash =
                       encode_geohash(calc.lib, calc.lat, calc.lon, calc.precision)]]
    /\ UNCHANGED pureFrame

\* fuzz_location(latitude, longitude, radius_miles) returns.
FuzzReturns ==
    /\ calc.fn = "fuzz_location" /\ ~calc.returned
    /\ calc' = [calc EXCEPT
                   !.returned = TRUE,
                   !.value = [NoValue EXCEPT
                       !.lat = fuzz_location(calc.lat, calc.lon, calc.radius,
                                             calc.angle, calc.distance).lat,
                       !.lon = fuzz_location(calc.lat, calc.lon, calc.radius,
                                             calc.angle, calc.distance).lon]]
    /\ UNCHANGED pureFrame

NextPure == EncodeReturns \/ FuzzReturns

SpecPure == InitPure /\ [][NextPure]_vars

\* ------------------------------------------------------------------------
\* The bounding boxes of find_nearby_facility and query_osm_nearby, over
\* centres and points
\* ------------------------------------------------------------------------

\* A point at an offset from a centre is tested against the box that
\* find_nearby_facility or query_osm_nearby builds about the centre.
BoxCall(fn, lat, lon, radius, dlat, dlon) ==
    [ fn |-> fn, lat |-> lat, lon |-> lon, radius |-> radius,
      plat |-> lat + dlat, plon |-> lon + dlon,
      returned |-> FALSE, inside |-> FALSE ]

\* Centres from the test coordinate to the north of the road network.
BoxLats == { -3390000, 0, 3677830, 4760000, 4900000, 6000000, 6480000 }

\* Offsets, in thousandths of the radius taken as degrees of latitude
\* (radius / 69.0), due north and south, due east and west, and between.
BoxOffsets == { -1900, -1510, -1300, -1000, -700, 0, 700, 1000, 1300, 1510, 1900 }

BoxCalls ==
    { BoxCall(fn, lat, -11941790, IF fn = "find_nearby_facility"
                                  THEN MAX_DISTANCE_MILES ELSE QUERY_RADIUS_MILES,
              (RadiusLat(IF fn = "find_nearby_facility"
                         THEN MAX_DISTANCE_MILES ELSE QUERY_RADIUS_MILES) * a) \div 1000,
              (RadiusLat(IF fn = "find_nearby_facility"
                         THEN MAX_DISTANCE_MILES ELSE QUERY_RADIUS_MILES) * b) \div 1000) :
        fn \in { "find_nearby_facility", "query_osm_nearby" },
        lat \in BoxLats, a \in { -1000, -700, 0, 700, 1000 }, b \in BoxOffsets }

InitBox ==
    /\ facilities = << >>
    /\ cache = << >>
    /\ now = 0
    /\ ghLib = TRUE
    /\ th = [p \in Procs |-> Idle]
    /\ ncalls = 0
    /\ overlap = { }
    /\ qlog = << >>
    /\ passes = [id \in { OsmCatalogue[i].id : i \in 1..Len(OsmCatalogue) } |-> 0]
    /\ driver_locations = << >>
    /\ drivers = << >>
    /\ hd = << >>
    /\ written = << >>
    /\ calc \in BoxCalls

\* The store answers the select of find_nearby_facility: the point is in
\* the box or not.
SearchBoxAnswers ==
    /\ calc.fn = "find_nearby_facility" /\ ~calc.returned
    /\ calc' = [calc EXCEPT
                   !.returned = TRUE,
                   !.inside = InSearchBox([latitude |-> calc.plat, longitude |-> calc.plon],
                                          calc.lat, calc.lon, calc.radius)]
    /\ UNCHANGED pureFrame

\* The provider answers the query of query_osm_nearby for its box.
QueryBoxAnswers ==
    /\ calc.fn = "query_osm_nearby" /\ ~calc.returned
    /\ calc' = [calc EXCEPT
                   !.returned = TRUE,
                   !.inside = InQueryBox([type |-> "node", lat |-> calc.plat,
                                          lon |-> calc.plon],
                                         calc.lat, calc.lon, calc.radius)]
    /\ UNCHANGED pureFrame

NextBox == SearchBoxAnswers \/ QueryBoxAnswers

SpecBox == InitBox /\ [][NextBox]_vars

\* ------------------------------------------------------------------------
\* parse_osm_element over tag combinations
\* ------------------------------------------------------------------------

\* The values of the tags the classification reads: the ones it tests for,
\* another value and the missing tag.
AmenityTags == { "", "fuel", "parking", "restaurant" }
HgvTags == { "", "yes", "no" }
HighwayTags == { "", "rest_area", "services" }
BuildingTags == { "", "warehouse", "industrial", "retail", "commercial", "yes" }
IndustrialTags == { "", "distribution" }

TagSets ==
    { [ amenity |-> a, hgv |-> g, highway |-> h, building |-> b,
        industrial |-> i, name |-> n, operator |-> o, brand |-> d ] :
        a \in AmenityTags, g \in HgvTags, h \in HighwayTags, b \in BuildingTags,
        i \in IndustrialTags, n \in { << >>, << "N" >> },
        o \in { << >>, << "O" >> }, d \in { << >>, << "B" >> } }

\* A node, a way with its center and a way that comes without it.
ParseElements ==
    { Element("node", 301, 3677830, -11941790, FALSE, 0, 0, tags) : tags \in TagSets }
    \cup
    { Element("way", 302, 0, 0, TRUE, 3677100, -11941790, tags) : tags \in TagSets }
    \cup
    { Element("way", 303, 0, 0, FALSE, 0, 0, tags) : tags \in TagSets }

NoRecord ==
    [ name |-> << >>, type |-> "", latitude |-> 0, longitude |-> 0,
      geohash |-> << >>, osm_id |-> 0 ]

ParseCall(e) ==
    [ fn |-> "parse_osm_element", element |-> e, returned |-> FALSE,
      isNone |-> FALSE, value |-> NoRecord ]

InitParse ==
    /\ facilities = << >>
    /\ cache = << >>
    /\ now = 0
    /\ ghLib = TRUE
    /\ th = [p \in Procs |-> Idle]
    /\ ncalls = 0
    /\ overlap = { }
    /\ qlog = << >>
    /\ passes = [id \in { OsmCatalogue[i].id : i \in 1..Len(OsmCatalogue) } |-> 0]
    /\ driver_locations = << >>
    /\ drivers = << >>
    /\ hd = << >>
    /\ written = << >>
    /\ calc \in { ParseCall(e) : e \in ParseElements }

\* parse_osm_element(element) returns a facility record.
ParseReturns ==
    /\ calc.fn = "parse_osm_element" /\ ~calc.returned
    /\ ~ParseIsNone(calc.element)
    /\ calc' = [calc EXCEPT !.returned = TRUE,
                            !.value = parse_osm_element(ghLib, calc.element)]
    /\ UNCHANGED pureFrame

\* parse_osm_element(element) returns None: the element has no coordinate.
ParseReturnsNone ==
    /\ calc.fn = "parse_osm_element" /\ ~calc.returned
    /\ ParseIsNone(calc.element)
    /\ calc' = [calc EXCEPT !.returned = TRUE, !.isNone = TRUE]
    /\ UNCHANGED pureFrame

NextParse == ParseReturns \/ ParseReturnsNone

SpecParse == InitParse /\ [][NextParse]_vars

\* ------------------------------------------------------------------------
\* app/routers/locations.py: the handlers that write driver_locations
\* ------------------------------------------------------------------------
\* Here `now` counts hours.  A row of driver_locations is
\*   [driver_id, latitude, longitude, fuzzed_latitude, fuzzed_longitude,
\*    geohash, recorded_at]

\* settings.geohash_precision_cluster, _metro and _local
GEOHASH_PRECISION_CLUSTER == 4

GEOHASH_PRECISION_METRO == 6

GEOHASH_PRECISION_LOCAL == 8

Drivers == { 1, 2, 3 }

\* The drivers that report in a run; driver 3 stays where it checked in.
Reporting == { 1, 2 }

Statuses == { "rolling", "waiting", "parked" }

\* The handlers of POST /check-in, of the silent update behind
\* POST /app-open, and of POST /status/update.
Handlers == { "check_in", "_update_location_silently", "update_status_with_location" }

\* {"rolling": ..., "waiting": ..., "parked": ...}.get(status, 0.5)
FuzzDistanceOf(status) ==
    CASE status = "rolling" -> LOCATION_FUZZ_ROLLING_MILES
      [] status = "waiting" -> LOCATION_FUZZ_WAITING_MILES
      [] status = "parked"  -> LOCATION_FUZZ_PARKED_MILES
      [] OTHER              -> 5000

\* location_data, lines 89-100, 318-329 and 402-413
LocationData(driver_id, latitude, longitude, fuzzed, recorded_at) ==
    [ driver_id        |-> driver_id,
      latitude         |-> latitude,
      longitude        |-> longitude,
      fuzzed_latitude  |-> fuzzed.lat,
      fuzzed_longitude |-> fuzzed.lon,
      geohash          |-> GeohashLib(fuzzed.lat, fuzzed.lon, GEOHASH_PRECISION_LOCAL),
      recorded_at      |-> recorded_at ]

\* An insert where the code upserts
Inserted(rows, data) == Append(rows, data)

\* upsert(location_data, on_conflict="driver_id"): the row of the driver is
\* replaced, or the first row of the driver is added.
Upserted(rows, data) ==
    IF \E i \in 1..Len(rows) : rows[i].driver_id = data.driver_id
    THEN [i \in 1..Len(rows) |->
             IF rows[i].driver_id = data.driver_id THEN data ELSE rows[i]]
    ELSE Append(rows, data)

\* Where the drivers report from: the two coordinates of QueryCoords.
\* What the handlers draw in fuzz_location: no offset, or half the radius
\* due north.
HandlerDraws ==
    { [angle |-> [cos |-> 10000, sin |-> 0], distance |-> 0],
      [angle |-> [cos |-> 10000, sin |-> 0], distance |-> 5000] }

\* Hours of the clock in one run.
MaxHours == 14

HIdle == [pc |-> "idle", handler |-> "", driver |-> 0, data |-> << >>, status |-> ""]

\* Drivers 2 and 3 checked in at the first of QueryCoords at hour 0 and
\* drew no offset; driver 1 has not reported yet.
FirstRow(d) ==
    LocationData(d, 3677830, -11941790, [lat |-> 3677830, lon |-> -11941790], 0)

InitDrivers ==
    /\ ghLib = TRUE
    /\ facilities = TableOf(<< Stored(<< "N" >>, 100, 0) >>)
    /\ cache = << >>
    /\ now = 0
    /\ th = [p \in Procs |-> Idle]
    /\ ncalls = 0
    /\ overlap = { }
    /\ qlog = << >>
    /\ passes = [id \in { OsmCatalogue[i].id : i \in 1..Len(OsmCatalogue) } |-> 0]
    /\ calc = << >>
    /\ drivers = [d \in Drivers |->
                    [status |-> IF d = 1 THEN "parked" ELSE "waiting", last_active |-> 0]]
    /\ driver_locations = << FirstRow(2), FirstRow(3) >>
    /\ hd = [p \in Procs |-> HIdle]
    /\ written = [d \in Drivers |-> IF d = 1 THEN << >> ELSE << FirstRow(d) >>]

driversFrame == << facilities, cache, ghLib, th, overlap, qlog, passes, calc >>

\* A handler takes a request of a driver: it picks the fuzz radius by the
\* driver's status (the new one in update_status_with_location), fuzzes the
\* coordinate and builds location_data.
Begin(p) ==
    /\ hd[p].pc = "idle"
    /\ \A q \in Procs : q < p => hd[q].pc # "idle"
    /\ ncalls < MaxCalls
    /\ \E handler \in Handlers, d \in Reporting, c \in QueryCoords,
          draw \in HandlerDraws, new_status \in Statuses :
          LET current == handler # "update_status_with_location"
              st      == IF current THEN drivers[d].status ELSE new_status
              fuzzed  == fuzz_location(c.lat, c.lon, FuzzDistanceOf(st),
                                       draw.angle, draw.distance)
          IN  /\ current => new_status = drivers[d].status
              /\ hd' = [hd EXCEPT ![p] =
                          [ pc |-> "upsert", handler |-> handler, driver |-> d,
                            data |-> << LocationData(d, c.lat, c.lon, fuzzed, now) >>,
                            status |-> st ]]
    /\ ncalls' = ncalls + 1
    /\ UNCHANGED << driver_locations, drivers, written, now, driversFrame >>

\* The store applies the upsert.
Upsert(p) ==
    /\ hd[p].pc = "upsert"
    /\ driver_locations' = Upserted(driver_locations, hd[p].data[1])
    /\ written' = [written EXCEPT ![hd[p].driver] = << hd[p].data[1] >>]
    /\ hd' = [hd EXCEPT ![p].pc = "touch"]
    /\ UNCHANGED << drivers, now, ncalls, driversFrame >>

\* The upsert fails: check_in and update_status_with_location answer 500,
\* _update_location_silently logs the error; none writes anything more.
UpsertFails(p) ==
    /\ hd[p].pc = "upsert"
    /\ hd' = [hd EXCEPT ![p] = HIdle]
    /\ UNCHANGED << driver_locations, drivers, written, now, ncalls, driversFrame >>

\* db.from_("drivers").update({...}).eq("id", ...): last_active, and the
\* status in update_status_with_location.
Touch(p) ==
    /\ hd[p].pc = "touch"
    /\ drivers' = [drivers EXCEPT ![hd[p].driver] =
                      [status |-> IF hd[p].handler = "update_status_with_location"
                                  THEN hd[p].status ELSE @.status,
                       last_active |-> now]]
    /\ hd' = [hd EXCEPT ![p] = HIdle]
    /\ UNCHANGED << driver_locations, written, now, ncalls, driversFrame >>

\* Seven hours pass between requests.
HoursPass ==
    /\ now + 7 <= MaxHours
    /\ \A p \in Procs : hd[p].pc = "idle"
    /\ now' = now + 7
    /\ UNCHANGED << driver_locations, drivers, hd, written, ncalls, driversFrame >>

NextDrivers ==
    \/ \E p \in Procs :
          \/ Begin(p)
          \/ Upsert(p)
          \/ UpsertFails(p)
          \/ Touch(p)
    \/ HoursPass

SpecDrivers == InitDrivers /\ [][NextDrivers]_vars

\* ------------------------------------------------------------------------
\* app/routers/map.py and get_nearby_drivers: what other users read
\* ------------------------------------------------------------------------
\* Distances in a response are in hundredths of a mile.

\* timedelta(hours=12)
STALE_HOURS == 12

\* settings.hotspot_min_waiting_drivers
HOTSPOT_MIN_WAITING_DRIVERS == 10

\* if fac_distance <= 0.3
HOTSPOT_FACILITY_MILES == 3000

\* radius_miles = 25.0, the default of get_drivers_in_area
AREA_DEFAULT_RADIUS == 250000

\* round(distance, 2)
Round2(distance) == (distance + 50) \div 100

\* The elements of a set of numbers in ascending order.
Ordered(S) ==
    [r \in 1..Cardinality(S) |->
        CHOOSE i \in S : Cardinality({ j \in S : j < i }) = r - 1]

\* list.sort(key=...): ascending by key, equal keys keep their order.
SortedByKey(items, keys) ==
    LET n == Len(items)
        Rank(i) == 1 + Cardinality({ j \in 1..n :
                        keys[j] < keys[i] \/ (keys[j] = keys[i] /\ j < i) })
    IN  [r \in 1..n |-> items[CHOOSE i \in 1..n : Rank(i) = r]]

\* The first characters of a geohash: loc["geohash"][:n]
HashPrefix(geohash, n) == Prefix(geohash, n)

\* .gte("recorded_at", cutoff_time), and the stale check of
\* get_nearby_drivers: rows recorded in the last twelve hours.
Fresh(rows, clock) ==
    SelectSeq(rows, LAMBDA loc : clock - loc.recorded_at <= STALE_HOURS)

\* sum(d[...] for d in drivers) / len(drivers)
RECURSIVE SumOf(_)
SumOf(values) ==
    IF values = << >> THEN 0 ELSE values[1] + SumOf(Tail(values))

\* The first member's value for the mean of the members
FirstOf(values) == values[1]

MeanOf(values) == SumOf(values) \div Len(values)

\* defaultdict(list) filled in row order: the keys in the order of their
\* first row, and the rows of a key in row order.
GroupKeys(rows, precision) ==
    LET first == { i \in 1..Len(rows) :
                     \A j \in 1..(i - 1) :
                         HashPrefix(rows[j].geohash, precision)
                             # HashPrefix(rows[i].geohash, precision) }
        order == Ordered(first)
    IN  [k \in 1..Len(order) |-> HashPrefix(rows[order[k]].geohash, precision)]

GroupOf(rows, precision, key) ==
    SelectSeq(rows, LAMBDA loc : HashPrefix(loc.geohash, precision) = key)

\* A group below the threshold passes too
AnyGroup(members, min_drivers) == Len(members) >= 1

\* if len(drivers) >= min_drivers
Qualifies(members, min_drivers) == Len(members) >= min_drivers

\* The distance of a row from the centre, by its true coordinate
TrueDistance(latitude, longitude, loc) ==
    calculate_distance(latitude, longitude, loc.latitude, loc.longitude)

\* calculate_distance(latitude, longitude, loc["fuzzed_latitude"],
\* loc["fuzzed_longitude"])
PublicDistance(latitude, longitude, loc) ==
    calculate_distance(latitude, longitude, loc.fuzzed_latitude, loc.fuzzed_longitude)

\* GET /map/drivers: req is [bbox, latitude, longitude, radius_miles (0 for
\* none), min_lat, max_lat, min_lng, max_lng, status_filter ("" for none),
\* limit].
get_drivers_in_area(rows, people, clock, req) ==
    LET center_lat   == IF req.bbox THEN (req.min_lat + req.max_lat) \div 2
                        ELSE req.latitude
        center_lng   == IF req.bbox THEN (req.min_lng + req.max_lng) \div 2
                        ELSE req.longitude
        radius_miles == IF ~req.bbox /\ req.radius_miles = 0
                        THEN AREA_DEFAULT_RADIUS ELSE req.radius_miles
        Passes(loc) ==
            /\ req.status_filter # "" => people[loc.driver_id].status = req.status_filter
            /\ IF req.bbox
               THEN /\ req.min_lat <= loc.fuzzed_latitude
                    /\ loc.fuzzed_latitude <= req.max_lat
                    /\ req.min_lng <= loc.fuzzed_longitude
                    /\ loc.fuzzed_longitude <= req.max_lng
               ELSE PublicDistance(req.latitude, req.longitude, loc) <= radius_miles
        kept    == SelectSeq(Fresh(rows, clock), Passes)
        Item(loc) ==
            [ driver_id      |-> loc.driver_id,
              status         |-> people[loc.driver_id].status,
              latitude       |-> loc.fuzzed_latitude,
              longitude      |-> loc.fuzzed_longitude,
              geohash        |-> HashPrefix(loc.geohash, GEOHASH_PRECISION_CLUSTER),
              distance_miles |-> Round2(PublicDistance(center_lat, center_lng, loc)),
              last_active    |-> people[loc.driver_id].last_active ]
        items   == [i \in 1..Len(kept) |-> Item(kept[i])]
        sorted  == SortedByKey(items, [i \in 1..Len(items) |-> items[i].distance_miles])
        limited == Prefix(sorted, req.limit)
    IN  [ center       |-> [latitude |-> center_lat, longitude |-> center_lng],
          radius_miles |-> IF req.bbox THEN 0 ELSE radius_miles,
          bounds       |-> IF req.bbox
                           THEN << req.min_lat, req.max_lat, req.min_lng, req.max_lng >>
                           ELSE << >>,
          count        |-> Len(limited),
          drivers      |-> limited ]

\* status_counts[d["status"]] += 1
StatusBreakdown(members, people) ==
    [st \in { people[members[i].driver_id].status : i \in 1..Len(members) } |->
        Cardinality({ i \in 1..Len(members) : people[members[i].driver_id].status = st })]

\* GET /map/clusters: req is [latitude, longitude, radius_miles, min_drivers].
get_driver_clusters(rows, people, clock, req) ==
    LET near == SelectSeq(Fresh(rows, clock),
                    LAMBDA loc : PublicDistance(req.latitude, req.longitude, loc)
                                     <= req.radius_miles)
        keys == GroupKeys(near, GEOHASH_PRECISION_METRO)
        Cluster(key) ==
            LET members == GroupOf(near, GEOHASH_PRECISION_METRO, key)
                avg_lat == MeanOf([i \in 1..Len(members) |-> members[i].fuzzed_latitude])
                avg_lng == MeanOf([i \in 1..Len(members) |-> members[i].fuzzed_longitude])
            IN  [ geohash              |-> key,
                  center               |-> [latitude |-> avg_lat, longitude |-> avg_lng],
                  total_drivers        |-> Len(members),
                  status_breakdown     |-> StatusBreakdown(members, people),
                  distance_from_search |->
                      Round2(calculate_distance(req.latitude, req.longitude,
                                                avg_lat, avg_lng)) ]
        kept     == SelectSeq(keys, LAMBDA key :
                        Qualifies(GroupOf(near, GEOHASH_PRECISION_METRO, key),
                                  req.min_drivers))
        clusters == [k \in 1..Len(kept) |-> Cluster(kept[k])]
        sorted   == SortedByKey(clusters,
                        [k \in 1..Len(clusters) |-> clusters[k].distance_from_search])
    IN  [ center                  |-> [latitude |-> req.latitude, longitude |-> req.longitude],
          radius_miles            |-> req.radius_miles,
          min_drivers_per_cluster |-> req.min_drivers,
          cluster_count           |-> Len(sorted),
          clusters                |-> sorted ]

\* The name of the first stored facility within 0.3 miles, or none.
FacilityNameAt(places, latitude, longitude) ==
    LET close == { i \in 1..Len(places) :
                     calculate_distance(latitude, longitude,
                                        places[i].latitude, places[i].longitude)
                         <= HOTSPOT_FACILITY_MILES }
    IN  IF close = { } THEN << >>
        ELSE << places[CHOOSE i \in close : \A j \in close : i <= j].name >>

\* GET /map/hotspots: req is [latitude, longitude, radius_miles,
\* min_waiting_drivers (0 for none)].
get_hotspots(rows, people, places, clock, req) ==
    LET min_drivers == IF req.min_waiting_drivers = 0
                       THEN HOTSPOT_MIN_WAITING_DRIVERS ELSE req.min_waiting_drivers
        waiting == SelectSeq(Fresh(rows, clock),
                       LAMBDA loc : people[loc.driver_id].status = "waiting")
        near    == SelectSeq(waiting,
                       LAMBDA loc : PublicDistance(req.latitude, req.longitude, loc)
                                        <= req.radius_miles)
        keys    == GroupKeys(near, GEOHASH_PRECISION_LOCAL)
        Hotspot(key) ==
            LET members == GroupOf(near, GEOHASH_PRECISION_LOCAL, key)
                avg_lat == MeanOf([i \in 1..Len(members) |-> members[i].fuzzed_latitude])
                avg_lng == MeanOf([i \in 1..Len(members) |-> members[i].fuzzed_longitude])
            IN  [ geohash              |-> key,
                  location             |-> [latitude |-> avg_lat, longitude |-> avg_lng],
                  facility_name        |-> FacilityNameAt(places, avg_lat, avg_lng),
                  waiting_drivers      |-> Len(members),
                  distance_from_search |->
                      Round2(calculate_distance(req.latitude, req.longitude,
                                                avg_lat, avg_lng)) ]
        kept     == SelectSeq(keys, LAMBDA key :
                        Len(GroupOf(near, GEOHASH_PRECISION_LOCAL, key)) >= min_drivers)
        hotspots == [k \in 1..Len(kept) |-> Hotspot(kept[k])]
        sorted   == SortedByKey(hotspots,
                        [k \in 1..Len(hotspots) |-> 0 - hotspots[k].waiting_drivers])
    IN  [ center        |-> [latitude |-> req.latitude, longitude |-> req.longitude],
          radius_miles  |-> req.radius_miles,
          hotspot_count |-> Len(sorted),
          hotspots      |-> sorted ]

\* GET /locations/nearby: req is [latitude, longitude, radius_miles,
\* status_filter ("" for none)].
get_nearby_drivers(rows, people, clock, req) ==
    LET Passes(loc) ==
            /\ PublicDistance(req.latitude, req.longitude, loc) <= req.radius_miles
            /\ req.status_filter # "" => people[loc.driver_id].status = req.status_filter
            /\ clock - loc.recorded_at <= STALE_HOURS
        kept   == SelectSeq(rows, Passes)
        Item(loc) ==
            [ driver_id      |-> loc.driver_id,
              status         |-> people[loc.driver_id].status,
              latitude       |-> loc.fuzzed_latitude,
              longitude      |-> loc.fuzzed_longitude,
              distance_miles |-> Round2(PublicDistance(req.latitude, req.longitude, loc)),
              last_active    |-> people[loc.driver_id].last_active ]
        nearby == [i \in 1..Len(kept) |-> Item(kept[i])]
        sorted == SortedByKey(nearby, [i \in 1..Len(nearby) |-> nearby[i].distance_miles])
    IN  [ count |-> Len(sorted), drivers |-> sorted ]

\* ------------------------------------------------------------------------
\* Properties of Spec
\* ------------------------------------------------------------------------

Window(i, j) == qlog[j].at - qlog[i].at <= CACHE_REFRESH_DAYS

Overlapping(i, j) == { qlog[i].call, qlog[j].call } \in overlap

\* The caller of query i is no longer inside discover_facilities.
Returned(i) ==
    \A p \in Procs :
        th[p].call = qlog[i].call => th[p].pc \notin { "cache_select", "cache_write" }

\* Rows of facilities with an osm_id.
CountOsm(id) == Cardinality({ i \in 1..Len(facilities) : facilities[i].osm_id = id })

\* The candidate parse_osm_element makes of the provider's element id.
Candidate(id) ==
    parse_osm_element(ghLib,
        OsmCatalogue[CHOOSE i \in 1..Len(OsmCatalogue) : OsmCatalogue[i].id = id])

\* The latest recorded scan of a cell.
LastRecorded(cell) ==
    LET times == { qlog[i].at : i \in { k \in 1..Len(qlog) :
                                         qlog[k].cell = cell /\ qlog[k].recorded } }
    IN  CHOOSE t \in times : \A u \in times : u <= t

\* C1 as claimed: when a call with discovery finds no scan record for its
\* cell and issues a provider query, the next call at the same coordinate,
\* made within the window and with no other call in between or alongside,
\* issues no provider query.
C1_SecondCallIssuesNoQuery ==
    \A i, j \in 1..Len(qlog) :
        ~ ( /\ qlog[j].call = qlog[i].call + 1
            /\ ~Overlapping(i, j)
            /\ qlog[j].lat = qlog[i].lat /\ qlog[j].lon = qlog[i].lon
            /\ qlog[i].norecord
            /\ Window(i, j) )

\* C2 as claimed: at most one provider query per cell per staleness window,
\* whatever the interleaving.  Stated for the queries the provider answered
\* alone, so that a violation shows two callers, not a failed exchange.
C2_OneQueryPerCellPerWindow ==
    \A i, j \in 1..Len(qlog) :
        ( /\ i < j
          /\ qlog[i].cell = qlog[j].cell
          /\ qlog[i].result # "raised" /\ qlog[j].result # "raised" )
        => ~Window(i, j)

\* C2, amended: two provider queries for one cell by calls that did not run
\* at the same time, the earlier of which went on to write the scan record,
\* are more than a staleness window apart.
C2_OneQueryPerRecordedWindow ==
    \A i, j \in 1..Len(qlog) :
        ( /\ i < j
          /\ qlog[i].cell = qlog[j].cell
          /\ ~Overlapping(i, j)
          /\ qlog[i].recorded )
        => ~Window(i, j)

C2_Witness ==
    \E i, j \in 1..Len(qlog) :
        /\ i < j
        /\ qlog[i].cell = qlog[j].cell
        /\ ~Overlapping(i, j)
        /\ qlog[i].recorded
        /\ qlog[j].at - qlog[i].at = CACHE_REFRESH_DAYS + 1

\* C3: once _update_query_cache has recorded a scan of a cell,
\* should_query_osm is False for the cell until the staleness window since
\* the latest recorded scan has passed, and True from then on.
C3_CacheMonotonicity ==
    \A i \in 1..Len(qlog) :
        qlog[i].recorded =>
            ( should_query_osm(cache, qlog[i].cell, now)
                <=> now - LastRecorded(qlog[i].cell) > CACHE_REFRESH_DAYS )

C3_Witness ==
    \E i \in 1..Len(qlog) :
        /\ qlog[i].recorded
        /\ now - LastRecorded(qlog[i].cell) > CACHE_REFRESH_DAYS
        /\ should_query_osm(cache, qlog[i].cell, now)

\* C4: once discover_facilities has returned from a provider query that
\* yielded no element, should_query_osm is False for the caller's cell for
\* the rest of the staleness window.
C4_EmptyScanIsCached ==
    \A i \in 1..Len(qlog) :
        ( /\ qlog[i].result = "empty"
          /\ Returned(i)
          /\ now - qlog[i].at <= CACHE_REFRESH_DAYS )
        => ~should_query_osm(cache, qlog[i].cell, now)

C4_Witness ==
    \E i \in 1..Len(qlog) :
        /\ qlog[i].result = "empty"
        /\ Returned(i)
        /\ now - qlog[i].at = CACHE_REFRESH_DAYS
        /\ \E k \in 1..Len(cache) :
              /\ cache[k].geohash_prefix = qlog[i].cell
              /\ cache[k].facilities_found = 0

\* C5 as claimed: after a candidate with osm_id x has gone twice through
\* the duplicate check and the insert, one call after the other, exactly
\* one stored facility has osm_id x.
C5_ExactlyOneAfterTwoPasses ==
    overlap = { } =>
        \A id \in DOMAIN passes : passes[id] = 2 => CountOsm(id) = 1

\* C5, amended: after a candidate with osm_id x has gone twice through the
\* duplicate check and the insert, at most one stored facility has osm_id
\* x; none has only when the candidate is a duplicate by proximity and name
\* of a stored facility.
C5_AtMostOneAfterTwoPasses ==
    \A id \in DOMAIN passes :
        passes[id] = 2 =>
            /\ CountOsm(id) <= 1
            /\ CountOsm(id) = 0 =>
                  DupByProximity(facilities, Candidate(id), DUPLICATE_THRESHOLD)

C5_Witness ==
    /\ overlap = { }
    /\ \E id \in DOMAIN passes : passes[id] = 2 /\ CountOsm(id) = 1

C9_NoDiscoveryNoEffects ==
    [][ \A p \in Procs :
          (th[p].pc # "idle" /\ ~th[p].discover /\ th'[p] # th[p]) =>
              /\ th'[p].pc \in { "done", "idle" }
              /\ facilities' = facilities
              /\ cache' = cache
              /\ qlog' = qlog ]_vars

C9_Witness ==
    \E p \in Procs :
        th[p].pc = "done" /\ ~th[p].discover /\ th[p].missed /\ th[p].res = NoFacility

\* C10 as claimed: when the exchange with the provider fails,
\* query_osm_nearby returns an empty list and no exception leaves the call.
C10_ProviderFailureIsEmptyResult ==
    \A p \in Procs :
        th[p].failure # "" => (th[p].pc # "raised" /\ th[p].elems = << >>)

\* C11 as claimed: when the store turns down the insert of a discovered
\* facility, discover_facilities does not go on: the call ends with the
\* error.
C11_WriteFailurePropagates ==
    \A p \in Procs : th[p].rejected > 0 => th[p].pc = "raised"

\* C12: the number discover_facilities returns grows by one exactly with
\* each row the call adds to facilities: with every step of a call, its
\* count of imports grows by as much as the table does.
C12_ReturnCountsInserts ==
    [][ \A p \in Procs :
          (th'[p] # th[p] /\ th'[p].call = th[p].call) =>
              th'[p].imported - th[p].imported = Len(facilities') - Len(facilities) ]_vars

\* A scan has returned fewer imports than the provider gave elements: one
\* element did not parse, one was a duplicate.
C12_Witness ==
    \E p \in Procs :
        /\ th[p].pc \in { "retry", "done" }
        /\ th[p].imported > 0
        /\ th[p].imported < th[p].nfound

\* The cells of the callers' coordinates.
Cells == { encode_geohash(ghLib, c.lat, c.lon, GEOHASH_PRECISION) : c \in QueryCoords }

RecordsOf(cell) == { i \in 1..Len(cache) : cache[i].geohash_prefix = cell }

ScansDone(cell) ==
    Cardinality({ i \in 1..Len(qlog) : qlog[i].cell = cell /\ qlog[i].recorded })

\* C20 as claimed: after n completed scans of a cell, under any
\* interleaving, the cell has exactly one scan record and its query_count
\* is n.
C20_OneRecordCountsScans ==
    \A cell \in Cells :
        ScansDone(cell) > 0 =>
            \E i \in RecordsOf(cell) :
                /\ RecordsOf(cell) = { i }
                /\ cache[i].query_count = ScansDone(cell)

\* The candidate caller p is deciding on, and the two reasons to reject
\* it, in the words of the rule and against the table as it is.
CandidateOf(p) == IF th[p].pc = "filter"
                  THEN parse_osm_element(ghLib, Head(th[p].elems))
                  ELSE th[p].cand[1]

SameOsmIdStored(f) ==
    /\ f.osm_id # 0
    /\ \E i \in 1..Len(facilities) : facilities[i].osm_id = f.osm_id

SimilarStoredNearby(f) ==
    \E i \in 1..Len(facilities) :
        LET g == facilities[i]
        IN  /\ SubSeq(g.geohash, 1, 6) = SubSeq(f.geohash, 1, 6)
            /\ calculate_distance(f.latitude, f.longitude, g.latitude, g.longitude)
                   <= DUPLICATE_THRESHOLD
            /\ \/ Lower(g.name) = Lower(f.name)
               \/ IsSubstring(Lower(g.name), Lower(f.name))
               \/ IsSubstring(Lower(f.name), Lower(g.name))

\* Caller p takes the step that answers the select by osm_id, or by geohash
\* prefix, of check_duplicate_facility, or the step of the insert.
AnswersOsmId(p) ==
    /\ th[p].pc = "filter" /\ th'[p] # th[p]
    /\ ~ParseRaises(Head(th[p].elems)) /\ ~ParseIsNone(Head(th[p].elems))
    /\ CandidateOf(p).osm_id # 0

AnswersPrefix(p) ==
    \/ th[p].pc = "proximity" /\ th'[p] # th[p]
    \/ /\ th[p].pc = "filter" /\ th'[p] # th[p]
       /\ ~ParseRaises(Head(th[p].elems)) /\ ~ParseIsNone(Head(th[p].elems))
       /\ CandidateOf(p).osm_id = 0

AnswersInsert(p) == th[p].pc = "insert" /\ th'[p] # th[p]

\* The candidate is given up: the loop is at the next element.
GivenUp(p) == th'[p].cand = << >>

\* The decision rule of check_duplicate_facility, select by select.
DecisionRule(p) ==
    /\ AnswersOsmId(p) => (GivenUp(p) <=> SameOsmIdStored(CandidateOf(p)))
    /\ AnswersPrefix(p) => (GivenUp(p) <=> SimilarStoredNearby(CandidateOf(p)))

\* The insert adds the candidate as one new row, the last of the table.
AddsOneRow(p) ==
    /\ Len(facilities') = Len(facilities) + 1
    /\ SubSeq(facilities', 1, Len(facilities)) = facilities
    /\ LET row == facilities'[Len(facilities')]
           f   == CandidateOf(p)
       IN  /\ row.osm_id = f.osm_id /\ row.name = f.name
           /\ row.latitude = f.latitude /\ row.longitude = f.longitude

\* C21 as claimed: check_duplicate_facility rejects a candidate exactly
\* when a stored facility has its osm_id, or a stored facility of its
\* 6-character cell lies within 0.05 miles and has an equal, containing or
\* contained lower-cased name; and every candidate not rejected is inserted
\* as exactly one new row.
C21_RejectedOrInserted ==
    [][ \A p \in Procs :
          /\ DecisionRule(p)
          /\ AnswersInsert(p) => AddsOneRow(p) ]_vars

\* C21, amended: the decision rule as claimed; a candidate not rejected is
\* inserted as exactly one new row unless, by the time of the insert, a
\* facility with its osm_id is stored: then the store rejects the insert
\* and the table stays as it is.
C21_RejectedOrInsertedOnce ==
    [][ \A p \in Procs :
          /\ DecisionRule(p)
          /\ AnswersInsert(p) =>
                IF SameOsmIdStored(CandidateOf(p))
                THEN facilities' = facilities
                ELSE AddsOneRow(p) ]_vars

\* One candidate was inserted and the next, with another osm_id and a
\* containing name 0.02 miles away, was rejected.
C21_Witness ==
    /\ CountOsm(101) = 1
    /\ CountOsm(102) = 0
    /\ passes[102] > 0

\* Provider queries the call of caller p has issued.
QueriesOf(p) == Cardinality({ i \in 1..Len(qlog) : qlog[i].call = th[p].call })

\* C24: every call of find_nearby_facility comes to its end, by a value or
\* by an exception, after at most two lookups in the store, at most one
\* nested call (one call of discover_facilities) and at most one provider
\* query.
C24_CallsEndWithinBounds ==
    /\ [](\A p \in Procs :
             /\ th[p].lookups <= 2
             /\ th[p].scans <= 1
             /\ Active(p) => QueriesOf(p) <= 1)
    /\ \A p \in Procs : Active(p) ~> (th[p].pc \in { "done", "raised" })

\* A call at its end after two lookups and one provider query.
C24_Witness ==
    \E p \in Procs :
        /\ th[p].pc = "done"
        /\ th[p].lookups = 2
        /\ th[p].scans = 1
        /\ QueriesOf(p) = 1

\* C29 as claimed: under concurrent callers, when a call of
\* find_nearby_facility with discover_if_missing=True comes to return
\* (None, None), no facility within max_distance_miles of its coordinate is
\* in the store: a caller whose own discovery imported nothing still
\* returns a facility that another caller has inserted within range.
C29_NoneOnlyIfNoneStored ==
    [][ \A p \in Procs :
          ( /\ th[p].pc # "done" /\ th'[p].pc = "done"
            /\ th'[p].discover
            /\ th'[p].res = NoFacility )
          => Lookup(facilities', th'[p].lat, th'[p].lon, MAX_DISTANCE_MILES)
                 = NoFacility ]_vars

\* The failures query_osm_nearby catches: requests' Timeout and
\* RequestException.
CaughtFailures == { "timeout", "http_error" }

\* No other call has been under way at the same time as the call of query i.
Alone(i) == \A c \in 1..ncalls : { qlog[i].call, c } \notin overlap

\* C30: a provider query that fails by a timeout or a request error comes
\* back as an empty list and is recorded like an empty scan: the caller
\* goes on to _update_query_cache with facilities_found = 0 (the record of
\* the cell holds 0 unless a call under way at the same time has written
\* it), and once discover_facilities has returned, should_query_osm is
\* False for the cell for 30 days from the query, so that no call made
\* after it in that time queries the provider for the cell.
C30_FailedQueryIsCached ==
    /\ \A p \in Procs :
          th[p].failure \in CaughtFailures =>
              /\ th[p].pc \in { "cache_select", "cache_write" }
              /\ th[p].nfound = 0 /\ th[p].elems = << >>
    /\ \A i \in 1..Len(qlog) :
          qlog[i].failure \in CaughtFailures =>
              /\ qlog[i].result = "empty"
              /\ Returned(i) => qlog[i].recorded
              /\ (Returned(i) /\ now - qlog[i].at <= CACHE_REFRESH_DAYS) =>
                    /\ \E k \in RecordsOf(qlog[i].cell) :
                          /\ RecordsOf(qlog[i].cell) = { k }
                          /\ cache[k].last_queried_at = qlog[i].at
                          /\ Alone(i) => cache[k].facilities_found = 0
                    /\ ~should_query_osm(cache, qlog[i].cell, now)
                    /\ \A j \in 1..Len(qlog) :
                          (j > i /\ qlog[j].cell = qlog[i].cell) => Overlapping(i, j)

\* A query timed out; on the last day of the window a later call at the
\* coordinate, finding no facility, went to discover_facilities and came
\* back without a provider query.
C30_Witness ==
    \E i \in 1..Len(qlog) : \E p \in Procs :
        /\ qlog[i].failure = "timeout" /\ qlog[i].recorded /\ Alone(i)
        /\ now - qlog[i].at = CACHE_REFRESH_DAYS
        /\ th[p].call > qlog[i].call
        /\ CellOf(th[p]) = qlog[i].cell
        /\ th[p].pc = "done" /\ th[p].discover /\ th[p].missed
        /\ \A j \in 1..Len(qlog) : qlog[j].call # th[p].call

\* ------------------------------------------------------------------------
\* Properties of SpecLookup
\* ------------------------------------------------------------------------

\* The rows the select of caller p fetches, and the distance of each.
Fetched(p) == SelectBox(facilities, th[p].lat, th[p].lon, MAX_DISTANCE_MILES)

DistanceOf(p, row) ==
    calculate_distance(th[p].lat, th[p].lon, row.latitude, row.longitude)

\* C7: a facility find_nearby_facility returns is within max_distance_miles
\* of the query coordinate and no fetched facility is strictly closer; when
\* no fetched facility is within max_distance_miles and discovery is
\* disabled, the result is (None, None).
C7_NearestWithinRadius ==
    \A p \in Procs :
        (th[p].pc = "done" /\ ~th[p].discover) =>
            LET fetched == Fetched(p)
                InRange == { i \in 1..Len(fetched) :
                                DistanceOf(p, fetched[i]) <= MAX_DISTANCE_MILES }
            IN  IF InRange = { } THEN th[p].res = NoFacility
                ELSE \E i \in InRange :
                        /\ th[p].res = [id |-> fetched[i].id, name |-> fetched[i].name]
                        /\ \A j \in 1..Len(fetched) :
                              DistanceOf(p, fetched[j]) >= DistanceOf(p, fetched[i])

\* The nearest facility is returned from a table where a farther one within
\* range comes after it and one out of range is fetched too.
C7_Witness ==
    \E p \in Procs :
        /\ th[p].pc = "done" /\ ~th[p].discover
        /\ th[p].res # NoFacility
        /\ \E i, j, k \in 1..Len(Fetched(p)) :
              /\ i < j
              /\ Fetched(p)[i].id = th[p].res.id
              /\ DistanceOf(p, Fetched(p)[j]) > DistanceOf(p, Fetched(p)[i])
              /\ DistanceOf(p, Fetched(p)[j]) <= MAX_DISTANCE_MILES
              /\ DistanceOf(p, Fetched(p)[k]) > MAX_DISTANCE_MILES

\* ------------------------------------------------------------------------
\* Properties of SpecCache
\* ------------------------------------------------------------------------

\* C18 as claimed: over any interleaving of _update_query_cache calls, no
\* step removes a scan record or lowers its last_queried_at.
C18_LastQueriedNeverDecreases ==
    [][ \A i \in 1..Len(cache) :
          /\ i <= Len(cache')
          /\ cache'[i].geohash_prefix = cache[i].geohash_prefix
          /\ cache'[i].last_queried_at >= cache[i].last_queried_at ]_vars

\* ------------------------------------------------------------------------
\* Properties of SpecPure
\* ------------------------------------------------------------------------

\* C13 as claimed: the coordinate fuzz_location returns is within
\* radius_miles of the true coordinate, by calculate_distance.
C13_FuzzWithinRadius ==
    (calc.fn = "fuzz_location" /\ calc.returned) =>
        calculate_distance(calc.lat, calc.lon, calc.value.lat, calc.value.lon)
            <= calc.radius

\* C17: encode_geohash at precision 8 starts with encode_geohash at
\* precision 6 of the same coordinate, with the geohash library and
\* without it.
C17_PrefixContainment ==
    (calc.fn = "encode_geohash" /\ calc.returned /\ calc.precision = 8) =>
        Prefix(calc.value.geohash, 6) = encode_geohash(calc.lib, calc.lat, calc.lon, 6)

\* A key of 8 characters returned by the library has been cut to its cell
\* of 6.
C17_Witness ==
    /\ calc.fn = "encode_geohash" /\ calc.returned /\ calc.precision = 8
    /\ calc.lib
    /\ Len(calc.value.geohash) = 8
    /\ Len(encode_geohash(calc.lib, calc.lat, calc.lon, 6)) = 6

\* ------------------------------------------------------------------------
\* Properties of SpecDrivers
\* ------------------------------------------------------------------------

RowsOf(d) == { i \in 1..Len(driver_locations) : driver_locations[i].driver_id = d }

\* C14: driver_locations holds at most one row for a driver, and that row
\* is the driver's latest location write the store applied.
C14_OneLiveRow ==
    \A d \in Drivers :
        /\ Cardinality(RowsOf(d)) <= 1
        /\ written[d] # << >> =>
              \E i \in RowsOf(d) : driver_locations[i] = written[d][1]
        /\ written[d] = << >> => RowsOf(d) = { }

\* A driver with a row has reported again from elsewhere: the row is the
\* later report.
C14_Witness ==
    \E d \in Drivers : \E i \in RowsOf(d) :
        /\ driver_locations[i].latitude # 3677830
        /\ driver_locations[i].recorded_at > 0
        /\ d # 1

\* The requests of other users, about the first of QueryCoords but for one
\* about the second.
AreaRequest(r, f) ==
    [ bbox |-> FALSE, latitude |-> 3677830, longitude |-> -11941790,
      radius_miles |-> r, min_lat |-> 0, max_lat |-> 0, min_lng |-> 0,
      max_lng |-> 0, status_filter |-> f, limit |-> 100 ]

AreaRequests ==
    { AreaRequest(0, ""), AreaRequest(3000, "waiting"),
      [ bbox |-> TRUE, latitude |-> 0, longitude |-> 0, radius_miles |-> 0,
        min_lat |-> 3677000, max_lat |-> 3678500, min_lng |-> -11942500,
        max_lng |-> -11941000, status_filter |-> "", limit |-> 2 ] }

ClusterRequest(r, m) ==
    [ latitude |-> 3677830, longitude |-> -11941790, radius_miles |-> r,
      min_drivers |-> m ]

ClusterRequests ==
    { ClusterRequest(500000, 2), ClusterRequest(500000, 3), ClusterRequest(10000, 2) }

HotspotRequests ==
    { [ latitude |-> 3677830, longitude |-> -11941790, radius_miles |-> 1000000,
        min_waiting_drivers |-> m ] : m \in { 0, 2 } }
    \cup
    { [ latitude |-> 3677100, longitude |-> -11941790, radius_miles |-> 1000000,
        min_waiting_drivers |-> 1 ] }

NearbyRequest(r, f) ==
    [ latitude |-> 3677830, longitude |-> -11941790, radius_miles |-> r,
      status_filter |-> f ]

NearbyRequests == { NearbyRequest(3000, ""), NearbyRequest(100000, "waiting") }

\* The store with the true coordinate of every row replaced by another
\* one of QueryCoords, and nothing else changed.
Relocated(rows) ==
    [i \in 1..Len(rows) |->
        LET c == CHOOSE q \in QueryCoords :
                     q.lat # rows[i].latitude \/ q.lon # rows[i].longitude
        IN  [rows[i] EXCEPT !.latitude = c.lat, !.longitude = c.lon]]

\* C15: a store that differs only in the true latitude and longitude of
\* driver_locations rows gives the same response from get_drivers_in_area,
\* get_driver_clusters, get_hotspots and get_nearby_drivers to the same
\* request.
C15_TrueCoordinateHidden ==
    LET other == Relocated(driver_locations)
    IN  /\ \A req \in AreaRequests :
              get_drivers_in_area(driver_locations, drivers, now, req)
                  = get_drivers_in_area(other, drivers, now, req)
        /\ \A req \in ClusterRequests :
              get_driver_clusters(driver_locations, drivers, now, req)
                  = get_driver_clusters(other, drivers, now, req)
        /\ \A req \in HotspotRequests :
              get_hotspots(driver_locations, drivers, facilities, now, req)
                  = get_hotspots(other, drivers, facilities, now, req)
        /\ \A req \in NearbyRequests :
              get_nearby_drivers(driver_locations, drivers, now, req)
                  = get_nearby_drivers(other, drivers, now, req)

\* A driver whose public coordinate differs from the true one is in a
\* response, and every endpoint has something to answer.
C15_Witness ==
    /\ \E req \in NearbyRequests :
          LET out == get_nearby_drivers(driver_locations, drivers, now, req).drivers
          IN  \E k \in 1..Len(out) : \E i \in RowsOf(out[k].driver_id) :
                  driver_locations[i].latitude # driver_locations[i].fuzzed_latitude
    /\ \E req \in AreaRequests :
          get_drivers_in_area(driver_locations, drivers, now, req).count > 1
    /\ \E req \in ClusterRequests :
          get_driver_clusters(driver_locations, drivers, now, req).cluster_count > 0
    /\ \E req \in HotspotRequests :
          get_hotspots(driver_locations, drivers, facilities, now, req).hotspot_count > 0

\* c is the mean of the values, to the unit of the coordinates
IsMean(c, values) ==
    /\ Len(values) * c <= SumOf(values)
    /\ SumOf(values) < Len(values) * c + Len(values)

\* The claim of C16 with the members of a group counted among rows.
ClusterThresholdOver(rows) ==
    \A req \in ClusterRequests :
        LET out == get_driver_clusters(driver_locations, drivers, now, req).clusters
            Members(key) ==
                SelectSeq(rows, LAMBDA loc :
                    /\ PublicDistance(req.latitude, req.longitude, loc) <= req.radius_miles
                    /\ HashPrefix(loc.geohash, GEOHASH_PRECISION_METRO) = key)
            Keys == { HashPrefix(rows[i].geohash, GEOHASH_PRECISION_METRO) :
                        i \in 1..Len(rows) }
        IN  /\ \A k \in 1..Len(out) :
                  LET m == Members(out[k].geohash)
                  IN  /\ Len(m) >= req.min_drivers
                      /\ out[k].total_drivers = Len(m)
                      /\ IsMean(out[k].center.latitude,
                                [i \in 1..Len(m) |-> m[i].fuzzed_latitude])
                      /\ IsMean(out[k].center.longitude,
                                [i \in 1..Len(m) |-> m[i].fuzzed_longitude])
            /\ \A key \in Keys :
                  Len(Members(key)) >= req.min_drivers
                      => Cardinality({ k \in 1..Len(out) : out[k].geohash = key }) = 1

\* C16 as stated: a group with fewer than min_drivers in-radius members
\* never appears in the output of get_driver_clusters, a group with at
\* least min_drivers in-radius members appears exactly once, its center is
\* the mean of its members' fuzzed coordinates and total_drivers their
\* number; the members are the stored rows of a geohash prefix.
C16_ClusterThresholdAnyAge == ClusterThresholdOver(driver_locations)

\* C16, amended: the same with the members counted among the rows recorded
\* in the last twelve hours.
C16_ClusterThreshold == ClusterThresholdOver(Fresh(driver_locations, now))

\* With min_drivers = 2 a group of two drivers at different public
\* coordinates is a cluster while a third driver, alone in another cell
\* within the radius, is in none.
C16_Witness ==
    \E req \in ClusterRequests :
        LET out == get_driver_clusters(driver_locations, drivers, now, req).clusters
        IN  /\ req.min_drivers = 2
            /\ Len(out) = 1
            /\ out[1].total_drivers = 2
            /\ \E i, j \in 1..Len(driver_locations) :
                  /\ i # j
                  /\ HashPrefix(driver_locations[i].geohash, GEOHASH_PRECISION_METRO)
                        = out[1].geohash
                  /\ HashPrefix(driver_locations[j].geohash, GEOHASH_PRECISION_METRO)
                        = out[1].geohash
                  /\ driver_locations[i].fuzzed_latitude
                        # driver_locations[j].fuzzed_latitude
            /\ \E i \in 1..Len(driver_locations) :
                  /\ HashPrefix(driver_locations[i].geohash, GEOHASH_PRECISION_METRO)
                        # out[1].geohash
                  /\ now - driver_locations[i].recorded_at <= STALE_HOURS
                  /\ PublicDistance(req.latitude, req.longitude, driver_locations[i])
                        <= req.radius_miles

\* ------------------------------------------------------------------------
\* Properties of SpecDedup
\* ------------------------------------------------------------------------

\* Two stored facilities of one place: within the duplicate threshold of
\* each other and with similar names.
SamePlace(i, j) ==
    /\ calculate_distance(facilities[i].latitude, facilities[i].longitude,
                          facilities[j].latitude, facilities[j].longitude)
           <= DUPLICATE_THRESHOLD
    /\ \/ Lower(facilities[i].name) = Lower(facilities[j].name)
       \/ IsSubstring(Lower(facilities[i].name), Lower(facilities[j].name))
       \/ IsSubstring(Lower(facilities[j].name), Lower(facilities[i].name))

\* C22 as claimed: a candidate with a new osm_id that lies within 0.05
\* miles of a stored facility with a similar name is always rejected,
\* wherever the cell boundaries fall, so that the table never holds two
\* such facilities.
C22_NoSamePlaceTwice ==
    \A i, j \in 1..Len(facilities) : i # j => ~SamePlace(i, j)

\* C28: discover_facilities and find_nearby_facility only add rows to the
\* facilities table: every row that existed before a step of a call is
\* present, at its place and field for field unchanged, after it, whatever
\* the provider returned and whether or not candidates are judged
\* duplicates.
C28_RowsOnlyAdded ==
    [][ /\ Len(facilities') >= Len(facilities)
        /\ SubSeq(facilities', 1, Len(facilities)) = facilities ]_vars

\* A call has ended that found a candidate to be a duplicate of the stored
\* Pilot and imported another one: the Pilot row is as it was stored.
C28_Witness ==
    /\ Len(facilities) >= 2
    /\ facilities[1] = TableOf(<< parse_osm_element(ghLib, PilotNode) >>)[1]
    /\ \E p \in Procs :
          /\ th[p].pc = "done"
          /\ th[p].imported >= 1
          /\ th[p].nfound > th[p].imported

\* Every row of the facilities table has a name.
RowsHaveNames == \A i \in 1..Len(facilities) : facilities[i].name # << >>

\* ------------------------------------------------------------------------
\* Properties of SpecBox
\* ------------------------------------------------------------------------

\* The point of the call is within the radius of the centre.
WithinRadius ==
    calculate_distance(calc.lat, calc.lon, calc.plat, calc.plon) <= calc.radius

\* C23 as claimed: every point within the requested radius of the centre
\* lies inside the box of find_nearby_facility and inside the box of
\* query_osm_nearby, at every latitude.
C23_BoxesCoverCircle ==
    (calc.returned /\ WithinRadius) => calc.inside

\* The same for the box of query_osm_nearby alone.
QueryBoxCoversCircle ==
    (calc.returned /\ calc.fn = "query_osm_nearby" /\ WithinRadius) => calc.inside

\* ------------------------------------------------------------------------
\* Properties of SpecDrivers: the order of the aggregates
\* ------------------------------------------------------------------------

\* A list of hotspots or clusters is in non-increasing order of the member
\* counts, or in non-decreasing order of the distances from the centre.
ByCountDescending(counts) ==
    \A k \in 1..(Len(counts) - 1) : counts[k] >= counts[k + 1]

ByDistanceAscending(items) ==
    \A k \in 1..(Len(items) - 1) :
        items[k].distance_from_search <= items[k + 1].distance_from_search

HotspotsOf(req) == get_hotspots(driver_locations, drivers, facilities, now, req).hotspots

ClustersOf(req) == get_driver_clusters(driver_locations, drivers, now, req).clusters

\* Two requests ask for the same thing: they agree in every parameter that
\* says which drivers to aggregate.  get_hotspots and get_driver_clusters
\* take no other parameter.
SameHotspotQuery(r, q) ==
    /\ r.latitude = q.latitude /\ r.longitude = q.longitude
    /\ r.radius_miles = q.radius_miles
    /\ r.min_waiting_drivers = q.min_waiting_drivers

SameClusterQuery(r, q) ==
    /\ r.latitude = q.latitude /\ r.longitude = q.longitude
    /\ r.radius_miles = q.radius_miles
    /\ r.min_drivers = q.min_drivers

\* The orders the two endpoints apply.
HotspotsByCount ==
    \A req \in HotspotRequests :
        ByCountDescending([k \in 1..Len(HotspotsOf(req)) |->
                              HotspotsOf(req)[k].waiting_drivers])

ClustersByDistance ==
    \A req \in ClusterRequests : ByDistanceAscending(ClustersOf(req))

\* C25 as claimed: get_hotspots returns hotspots in non-increasing order of
\* member count and get_driver_clusters returns clusters in non-decreasing
\* order of the distance from the centre, and the caller can select the
\* order: each endpoint gives the other order as well, to a request for the
\* same aggregation.
C25_OrderingSelectable ==
    /\ HotspotsByCount
    /\ ClustersByDistance
    /\ \A req \in HotspotRequests : \E q \in HotspotRequests :
          SameHotspotQuery(req, q) /\ ByDistanceAscending(HotspotsOf(q))
    /\ \A req \in ClusterRequests : \E q \in ClusterRequests :
          /\ SameClusterQuery(req, q)
          /\ ByCountDescending([k \in 1..Len(ClustersOf(q)) |->
                                   ClustersOf(q)[k].total_drivers])

\* ------------------------------------------------------------------------
\* Properties of SpecParse
\* ------------------------------------------------------------------------

\* The record a finished call of parse_osm_element returned.
ParsedRecord == calc.fn = "parse_osm_element" /\ calc.returned /\ ~calc.isNone

\* The first rule of a priority list that matches: each rule is a pair of
\* the set of elements it matches (as a predicate value) and its category.
FirstMatch(rules) ==
    rules[CHOOSE k \in 1..Len(rules) :
              /\ rules[k][1]
              /\ \A j \in 1..(k - 1) : ~rules[j][1]][2]

\* The priority order as claimed.
ClaimedRules(e) ==
    << << e.amenity = "fuel" /\ e.hgv = "yes", "truck_stop" >>,
       << e.highway = "rest_area", "rest_area" >>,
       << e.highway = "services", "service_plaza" >>,
       << e.building \in { "warehouse", "industrial" }, "warehouse" >>,
       << e.building \in { "retail", "commercial" } /\ e.name # << >>, "warehouse" >>,
       << TRUE, "truck_stop" >> >>

\* The priority order with the rules the claim leaves out: fuel alone,
\* truck parking, the distribution tag, and retail or commercial buildings
\* whether named or not.
FullRules(e) ==
    << << e.amenity = "fuel", "truck_stop" >>,
       << e.highway = "rest_area", "rest_area" >>,
       << e.amenity = "parking" /\ e.hgv = "yes", "parking" >>,
       << e.highway = "services", "service_plaza" >>,
       << e.building \in { "warehouse", "industrial" }, "warehouse" >>,
       << e.industrial = "distribution", "warehouse" >>,
       << e.building \in { "retail", "commercial" }, "warehouse" >>,
       << TRUE, "truck_stop" >> >>

\* C26 as claimed: for every combination of the amenity, hgv, highway,
\* building, industrial and name tags, the category parse_osm_element
\* assigns is the first matching rule of: fuel with hgv=yes -> truck_stop;
\* highway=rest_area -> rest_area; highway=services -> service_plaza;
\* building warehouse or industrial -> warehouse; named retail or
\* commercial building -> warehouse; otherwise truck_stop.
C26_CategoryByClaimedOrder ==
    ParsedRecord => calc.value.type = FirstMatch(ClaimedRules(calc.element))

\* C26, amended: the category is the first matching rule of: amenity=fuel
\* (with or without hgv) -> truck_stop; highway=rest_area -> rest_area;
\* amenity=parking with hgv=yes -> parking; highway=services ->
\* service_plaza; building warehouse or industrial -> warehouse;
\* industrial=distribution -> warehouse; building retail or commercial
\* (named or not) -> warehouse; otherwise truck_stop.
C26_CategoryByFullOrder ==
    ParsedRecord => calc.value.type = FirstMatch(FullRules(calc.element))

\* A fuel station without hgv on a rest area, a truck parking on a service
\* area and an unnamed retail building have been classified.
C26_Witness ==
    /\ ParsedRecord
    /\ calc.element.amenity = "parking" /\ calc.element.hgv = "yes"
    /\ calc.element.highway = "services"
    /\ calc.element.building = "retail" /\ calc.element.name = << >>
    /\ calc.value.type = "parking"

\* The first non-empty of a list of strings, the last one if none is.
FirstNonEmpty(names) ==
    IF \E k \in 1..Len(names) : names[k] # << >>
    THEN names[CHOOSE k \in 1..Len(names) :
                   /\ names[k] # << >>
                   /\ \A j \in 1..(k - 1) : names[j] = << >>]
    ELSE names[Len(names)]

\* C27: every facility record parse_osm_element returns has a non-empty
\* name, the first non-empty of the name tag, the operator tag, the brand
\* tag and the synthesized string of category and coordinates.
C27_NameNeverEmpty ==
    ParsedRecord =>
        /\ calc.value.name # << >>
        /\ calc.value.name =
              FirstNonEmpty(<< calc.element.name, calc.element.operator,
                               calc.element.brand,
                               SynthesizedName(calc.value.type, calc.value.latitude,
                                               calc.value.longitude) >>)

\* A rest area without name, operator and brand has been given the name
\* "Rest Area (36.7783, -119.4179)".
C27_Witness ==
    /\ ParsedRecord
    /\ calc.element.name = << >> /\ calc.element.operator = << >>
    /\ calc.element.brand = << >>
    /\ calc.value.name = << "R", "e", "s", "t", " ", "A", "r", "e", "a", " ", "(",
                            "3", "6", ".", "7", "7", "8", "3", ",", " ",
                            "-", "1", "1", "9", ".", "4", "1", "7", "9", ")" >>

====
